---- MODULE Spec2Model ----
(***************************************************************************)
(* Forest fly-through renderer (theme-aware variant).                      *)
(*                                                                         *)
(* The palettes and the interpolation parameter t are Numbers (IEEE-754    *)
(* binary64) with their rounding.  The other numbers are in fixed point:   *)
(*   depths and lateral positions   in 1/1000 world units  (ZU)            *)
(*   fade                           in 1/10000             (FADE_ONE)      *)
(*   hue, saturation and lightness  in 1/1000              (CH)            *)
(*   times                          in whole milliseconds                  *)
(* A 32-bit word of the generator is a pair <<hi, lo>> of 16-bit halves.   *)
(***************************************************************************)
EXTENDS Integers, Sequences, FiniteSets, TLC

(***************************************************************************)
(* Bounds of the model.                                                    *)
(***************************************************************************)
\* columns of the forest whose trees the model tracks (first of `cols`)
PoolCols == 2
\* rows of each tracked column the model tracks (the rows nearest the camera)
PoolRows == 1
\* ticks of a run of Spec
MaxTicks == 3
\* frames of a run of LiveSpec outside a transition
MaxLiveTicks == 1
\* length of a run of LongSpec, in display frames of 16 ms
MaxLongFrames == 150
\* length and greatest z of the arrays SortSpec sorts
MaxSortLen == 4
MaxSortZ == 2
\* the interval [0, THEME_DURATION] is probed at LerpSteps + 1 points
LerpSteps == 8
\* trees each of the two engine instances of BuildSpec builds
MaxBuildTrees == 14
\* theme messages of a run
MaxThemeMsgs == 1

(***************************************************************************)
(* Tunables.                                                               *)
(***************************************************************************)
ZU == 10 * 100
DEPTH_FAR == 55000
HALF_W == 20000
\* SPEED_BASE = 0.004 world units per ms = 4 ZU per ms
SPEED_BASE == 4
X_SPACING == 3600
Z_SPACING == 4800
X_JITTER == (X_SPACING * 3) \div 10
RECYCLE_DELAY_MS == 1000
\* the near threshold of update's recycle test (tr.z < 1.1)
RECYCLE_NEAR_Z == 1100
DEPTH_QUANT == 11
THEME_DURATION == 1000
\* fade = 1
FADE_ONE == 10 * 1000
\* fadeDelta = dt * 0.0015 = 15 per ms in 1/10000
FADE_RATE == 15
\* the frame loop's ceiling on dt and its first-tick dt
DT_MAX == 48
DT_FIRST == 16
CH == 10 * 100

(***************************************************************************)
(* Seeded PRNG (mulberry32) on 32-bit words as <<hi, lo>>.                 *)
(***************************************************************************)
HALF == 256 * 256

RECURSIVE XorN(_, _, _)
XorN(a, b, n) ==
  IF n = 0 THEN 0
  ELSE (((a % 2) + (b % 2)) % 2) + 2 * XorN(a \div 2, b \div 2, n - 1)

RECURSIVE OrN(_, _, _)
OrN(a, b, n) ==
  IF n = 0 THEN 0
  ELSE (IF (a % 2) = 1 \/ (b % 2) = 1 THEN 1 ELSE 0) + 2 * OrN(a \div 2, b \div 2, n - 1)

RECURSIVE Pow2(_)
Pow2(n) == IF n = 0 THEN 1 ELSE 2 * Pow2(n - 1)

Xor32(a, b) == <<XorN(a[1], b[1], 16), XorN(a[2], b[2], 16)>>

\* a | k for a small constant k < 65536
OrLow32(a, k) == <<a[1], OrN(a[2], k, 16)>>

Add32(a, b) ==
  LET lo == a[2] + b[2]
  IN  <<(a[1] + b[1] + (lo \div HALF)) % HALF, lo % HALF>>

\* a >>> n, for 0 < n < 16
Shr32(a, n) ==
  <<a[1] \div Pow2(n), (a[2] \div Pow2(n)) + (a[1] % Pow2(n)) * Pow2(16 - n)>>

\* low 16 bits of x * y, x and y 16-bit
MulLo16(x, y) ==
  LET x1 == x \div 256  x0 == x % 256
      y1 == y \div 256  y0 == y % 256
  IN  ((x0 * y0) + (((x1 * y0) + (x0 * y1)) % 256) * 256) % HALF

\* Math.imul: the low 32 bits of a * b
Imul32(a, b) ==
  LET a1 == a[2] \div 256  a0 == a[2] % 256
      b1 == b[2] \div 256  b0 == b[2] % 256
      mid == (a1 * b0) + (a0 * b1)
      lowpart == (a0 * b0) + ((mid % 256) * 256)
      hiLL == (a1 * b1) + (mid \div 256) + (lowpart \div HALF)
  IN  <<(hiLL + MulLo16(a[1], b[2]) + MulLo16(a[2], b[1])) % HALF, lowpart % HALF>>

\* the seed 0xabcd1234 and the increment 0x6d2b79f5
RNG_SEED == <<43981, 4660>>
RNG_INC == <<27947, 31221>>

\* one call of the closure: the seed it leaves
mulberry32Seed(seed) == Add32(seed, RNG_INC)

\* one call of the closure: the 32-bit word whose value / 2^32 it returns
mulberry32Out(seed) ==
  LET s == mulberry32Seed(seed)
      t1 == Imul32(Xor32(s, Shr32(s, 15)), OrLow32(s, 1))
      t2 == Xor32(Add32(t1, Imul32(Xor32(t1, Shr32(t1, 7)), OrLow32(t1, 61))), t1)
  IN  Xor32(t2, Shr32(t2, 14))

\* rng() * (b - a) + a in fixed point; the word's upper half carries the fraction
randS(word, a, b) == ((word[1] * (b - a)) \div HALF) + a

\* the one element of a singleton: Only({e(x) : x \in {v}}) is e(v), with v
\* computed once
Only(S) == CHOOSE x \in S : TRUE

Min(a, b) == IF a < b THEN a ELSE b
Max(a, b) == IF a > b THEN a ELSE b

(***************************************************************************)
(* Natural numbers of any size, as little-endian sequences of limbs below  *)
(* LIMB with no zero limb at the top; <<>> is 0.  An operator named ...V   *)
(* works on values; its namesake without the V computes each argument once *)
(* and applies it.                                                         *)
(***************************************************************************)
LIMB_BITS == 15
LIMB == 128 * 256

NLimb(a, i) == IF 1 <= i /\ i <= Len(a) THEN a[i] ELSE 0

\* the length of a[1..i] without its zero limbs at the top
RECURSIVE NNormLen(_, _)
NNormLen(a, i) == IF i > 0 /\ a[i] = 0 THEN NNormLen(a, i - 1) ELSE i

NNorm(a) == Only({SubSeq(av, 1, NNormLen(av, Len(av))) : av \in {a}})

\* a + b + c from limb i on
RECURSIVE NAddFrom(_, _, _, _)
NAddFrom(a, b, i, c) ==
  IF i > Len(a) /\ i > Len(b) THEN (IF c = 0 THEN <<>> ELSE <<c>>)
  ELSE Only({<<sum % LIMB>> \o NAddFrom(a, b, i + 1, sum \div LIMB)
             : sum \in {NLimb(a, i) + NLimb(b, i) + c}})

NAdd(a, b) == Only({NAddFrom(av, bv, 1, 0) : av \in {a}, bv \in {b}})

\* a - b - c from limb i on, for a >= b
RECURSIVE NSubFrom(_, _, _, _)
NSubFrom(a, b, i, c) ==
  IF i > Len(a) THEN <<>>
  ELSE Only({<<diff % LIMB>> \o NSubFrom(a, b, i + 1, IF diff < 0 THEN 1 ELSE 0)
             : diff \in {a[i] - NLimb(b, i) - c}})

NSub(a, b) == NNorm(Only({NSubFrom(av, bv, 1, 0) : av \in {a}, bv \in {b}}))

\* -1, 0 or 1 as a < b, a = b or a > b, for equal lengths, from limb i down
RECURSIVE NCmpFrom(_, _, _)
NCmpFrom(a, b, i) ==
  IF i = 0 THEN 0
  ELSE IF a[i] < b[i] THEN -1
  ELSE IF a[i] > b[i] THEN 1
  ELSE NCmpFrom(a, b, i - 1)

NCmpV(a, b) ==
  IF Len(a) < Len(b) THEN -1
  ELSE IF Len(a) > Len(b) THEN 1
  ELSE NCmpFrom(a, b, Len(a))

NCmp(a, b) == Only({NCmpV(av, bv) : av \in {a}, bv \in {b}})

\* a * k + c from limb i on, for 0 < k < LIMB
RECURSIVE NMulSmallFrom(_, _, _, _)
NMulSmallFrom(a, k, i, c) ==
  IF i > Len(a) THEN (IF c = 0 THEN <<>> ELSE <<c>>)
  ELSE Only({<<prod % LIMB>> \o NMulSmallFrom(a, k, i + 1, prod \div LIMB)
             : prod \in {(a[i] * k) + c}})

NMulSmall(a, k) ==
  Only({IF kv = 0 THEN <<>> ELSE NMulSmallFrom(av, kv, 1, 0) : av \in {a}, kv \in {k}})

\* a * (the limbs of b from i on), for a, b > 0
RECURSIVE NMulFrom(_, _, _)
NMulFrom(a, b, i) ==
  IF i = Len(b) THEN NMulSmall(a, b[i])
  ELSE NAdd(NMulSmall(a, b[i]), <<0>> \o NMulFrom(a, b, i + 1))

NMul(a, b) ==
  Only({IF av = <<>> \/ bv = <<>> THEN <<>> ELSE NMulFrom(av, bv, 1)
        : av \in {a}, bv \in {b}})

\* the remainder by d of the limbs of a from j up, for 0 < d < LIMB
RECURSIVE NRemAbove(_, _, _)
NRemAbove(a, d, j) ==
  IF j > Len(a) THEN 0 ELSE ((NRemAbove(a, d, j + 1) * LIMB) + a[j]) % d

NDivSmall(a, d) ==
  NNorm(Only({[i \in 1..Len(av) |-> ((NRemAbove(av, d, i + 1) * LIMB) + av[i]) \div d]
              : av \in {a}}))

NModSmall(a, d) == Only({NRemAbove(av, d, 1) : av \in {a}})

\* a * 2^k, by whole limbs w and bits s
NShlV(a, w, s) ==
  [j \in 1..(Len(a) + w + 1) |->
     ((NLimb(a, j - w) % (2 ^ (LIMB_BITS - s))) * (2 ^ s))
       + (NLimb(a, j - w - 1) \div (2 ^ (LIMB_BITS - s)))]

NShl(a, k) ==
  NNorm(Only({NShlV(av, kv \div LIMB_BITS, kv % LIMB_BITS) : av \in {a}, kv \in {k}}))

\* floor(a / 2^k), by whole limbs w and bits s
NShrV(a, w, s) ==
  IF w >= Len(a) THEN <<>>
  ELSE [i \in 1..(Len(a) - w) |->
          (a[i + w] \div (2 ^ s))
            + ((NLimb(a, i + w + 1) % (2 ^ s)) * (2 ^ (LIMB_BITS - s)))]

NShr(a, k) ==
  NNorm(Only({NShrV(av, kv \div LIMB_BITS, kv % LIMB_BITS) : av \in {a}, kv \in {k}}))

\* bit k of a, the lowest being bit 0
NBit(a, k) ==
  Only({(NLimb(a, (kv \div LIMB_BITS) + 1) \div (2 ^ (kv % LIMB_BITS))) % 2 : kv \in {k}})

\* the bits of a below bit k are all 0
NLowZeroV(a, k) ==
  /\ \A i \in 1..(k \div LIMB_BITS) : NLimb(a, i) = 0
  /\ NLimb(a, (k \div LIMB_BITS) + 1) % (2 ^ (k % LIMB_BITS)) = 0

NLowZero(a, k) == Only({NLowZeroV(av, kv) : av \in {a}, kv \in {k}})

RECURSIVE BitLen(_)
BitLen(x) == IF x = 0 THEN 0 ELSE 1 + BitLen(x \div 2)

NBitLen(a) ==
  Only({IF av = <<>> THEN 0 ELSE (LIMB_BITS * (Len(av) - 1)) + BitLen(av[Len(av)])
        : av \in {a}})

\* the number of zero bits below the lowest one bit, for x > 0 and a > 0
RECURSIVE Tz(_)
Tz(x) == IF x % 2 = 1 THEN 0 ELSE 1 + Tz(x \div 2)

RECURSIVE NTzFrom(_, _)
NTzFrom(a, i) == IF a[i] = 0 THEN LIMB_BITS + NTzFrom(a, i + 1) ELSE Tz(a[i])

NTz(a) == Only({NTzFrom(av, 1) : av \in {a}})

NIsOdd(a) == Only({av # <<>> /\ av[1] % 2 = 1 : av \in {a}})

\* for a below LIMB^2 and n below 2^31
NToInt(a) == Only({NLimb(av, 1) + (LIMB * NLimb(av, 2)) : av \in {a}})
NFromInt(n) ==
  NNorm(Only({<<nv % LIMB, (nv \div LIMB) % LIMB, nv \div (LIMB * LIMB)>> : nv \in {n}}))

(***************************************************************************)
(* IEEE-754 binary64 numbers (the Number type), as sign, odd significand m *)
(* and exponent e: the value is m * 2^e.  Results are rounded to DBL_BITS  *)
(* significant bits, ties to even.  The values of the model are far from   *)
(* the subnormal and the overflow range.                                   *)
(***************************************************************************)
DBL_BITS == 53
\* extra bits of a quotient, beyond the divisor's LIMB_BITS
DIV_SHIFT == 72

DZero == [neg |-> FALSE, m |-> <<>>, e |-> 0]

\* n * 2^e with n cut to its odd part, n a value
DCanonV(neg, n, e) ==
  IF n = <<>> THEN DZero
  ELSE Only({[neg |-> neg, m |-> NShr(n, tz), e |-> e + tz] : tz \in {NTz(n)}})

\* round to nearest, ties to even: n * 2^e, n any natural
DRoundV(neg, n, e) ==
  Only({IF sh <= 0 THEN DCanonV(neg, n, e)
        ELSE Only({IF NBit(n, sh - 1) = 1 /\ (~NLowZero(n, sh - 1) \/ NIsOdd(q))
                   THEN Only({DCanonV(neg, q1, e + sh) : q1 \in {NAdd(q, <<1>>)}})
                   ELSE DCanonV(neg, q, e + sh)
                   : q \in {NShr(n, sh)}})
        : sh \in {NBitLen(n) - DBL_BITS}})

DRound(neg, n, e) == Only({DRoundV(neg, nv, ev) : nv \in {n}, ev \in {e}})

DFromInt(n) == Only({DRound(nv < 0, NFromInt(IF nv < 0 THEN -nv ELSE nv), 0) : nv \in {n}})

DNeg(x) == Only({IF xv.m = <<>> THEN xv ELSE [xv EXCEPT !.neg = ~xv.neg] : xv \in {x}})

\* -1, 0 or 1 as x < y, x = y or x > y
DCmpV(x, y) ==
  IF x.m = <<>> /\ y.m = <<>> THEN 0
  ELSE IF x.m = <<>> THEN (IF y.neg THEN 1 ELSE -1)
  ELSE IF y.m = <<>> THEN (IF x.neg THEN -1 ELSE 1)
  ELSE IF x.neg # y.neg THEN (IF x.neg THEN -1 ELSE 1)
  ELSE Only({IF x.neg THEN -c ELSE c
             : c \in {NCmp(NShl(x.m, x.e - Min(x.e, y.e)),
                           NShl(y.m, y.e - Min(x.e, y.e)))}})

DCmp(x, y) == Only({DCmpV(xv, yv) : xv \in {x}, yv \in {y}})

\* x + y
DAddV(x, y) ==
  IF x.m = <<>> THEN y
  ELSE IF y.m = <<>> THEN x
  ELSE Only({IF x.neg = y.neg THEN DRound(x.neg, NAdd(X, Y), Min(x.e, y.e))
             ELSE IF NCmp(X, Y) = 0 THEN DZero
             ELSE IF NCmp(X, Y) = 1 THEN DRound(x.neg, NSub(X, Y), Min(x.e, y.e))
             ELSE DRound(y.neg, NSub(Y, X), Min(x.e, y.e))
             : X \in {NShl(x.m, x.e - Min(x.e, y.e))},
               Y \in {NShl(y.m, y.e - Min(x.e, y.e))}})

DAdd(x, y) == Only({DAddV(xv, yv) : xv \in {x}, yv \in {y}})

\* x - y
DSub(x, y) == DAdd(x, DNeg(y))

\* x * y
DMulV(x, y) ==
  IF x.m = <<>> \/ y.m = <<>> THEN DZero
  ELSE DRound(x.neg # y.neg, NMul(x.m, y.m), x.e + y.e)

DMul(x, y) == Only({DMulV(xv, yv) : xv \in {x}, yv \in {y}})

\* x / d for an integer 0 < d < LIMB: the quotient's bits, and below them
\* one bit that tells whether the division left a remainder
DDivIntV(x, d) ==
  IF x.m = <<>> THEN DZero
  ELSE Only({DRound(x.neg,
                    NAdd(NShl(NDivSmall(n, d), 1),
                         IF NModSmall(n, d) = 0 THEN <<>> ELSE <<1>>),
                    x.e - DIV_SHIFT - 1)
             : n \in {NShl(x.m, DIV_SHIFT)}})

DDivInt(x, d) == Only({DDivIntV(xv, d) : xv \in {x}})

\* the literal n / d, d a power of ten
DDec(n, d) == DDivInt(DFromInt(n), d)

\* the integer nearest to |x| * k, the larger of two equally near, for a small integer k
DNearestV(x, k) ==
  Only({IF x.m = <<>> THEN 0
        ELSE IF x.e >= 0 THEN NToInt(NShl(n, x.e))
        ELSE NToInt(NShr(n, -x.e)) + NBit(n, (-x.e) - 1)
        : n \in {NMulSmall(x.m, k)}})

\* floor(|x| * k), for a small integer k > 0
DScaledFloorV(x, k) ==
  IF x.m = <<>> THEN 0
  ELSE IF x.e >= 0 THEN NToInt(NShl(NMulSmall(x.m, k), x.e))
  ELSE NToInt(NShr(NMulSmall(x.m, k), -x.e))

DScaledFloor(x, k) == Only({DScaledFloorV(xv, k) : xv \in {x}})

DNearest(x, k) == Only({DNearestV(xv, k) : xv \in {x}})

\* x | 0, for |x| < 2^30
DTrunc(x) ==
  Only({IF xv.neg THEN -DScaledFloorV(xv, 1) ELSE DScaledFloorV(xv, 1) : xv \in {x}})

\* floor(rem * 2^n / den) and the remainder, for rem < den: long division, one quotient
\* bit per step; q holds the bits found so far
RECURSIVE NDivBits(_, _, _, _)
NDivBits(rem, den, n, q) ==
  Only({IF n = 0 THEN <<qv, rv>>
        ELSE IF n = 1
        THEN Only({IF NCmp(r2, den) >= 0
                   THEN <<NAdd(NShl(qv, 1), <<1>>), NSub(r2, den)>>
                   ELSE <<NShl(qv, 1), r2>>
                   : r2 \in {NShl(rv, 1)}})
        ELSE Only({NDivBits(h[2], den, n - (n \div 2), h[1])
                   : h \in {NDivBits(rv, den, n \div 2, qv)}})
        : rv \in {rem}, qv \in {q}})

\* 1 / y for y > 0: enough quotient bits for the rounding, and below them
\* one bit that tells whether the division left a remainder
DRecipV(y, k) ==
  Only({DRound(FALSE,
               NAdd(NShl(d[1], 1), IF d[2] = <<>> THEN <<>> ELSE <<1>>),
               (-y.e) - k - 1)
        : d \in {IF y.m = <<1>> THEN NDivBits(<<>>, y.m, k, <<1>>)
                 ELSE NDivBits(<<1>>, y.m, k, <<>>)}})

DRecip(y) == Only({DRecipV(yv, NBitLen(yv.m) + DBL_BITS + 2) : yv \in {y}})

DOne == DFromInt(1)
DTwo == DFromInt(2)
DThree == DFromInt(3)


(***************************************************************************)
(* Helpers.                                                                *)
(***************************************************************************)
clamp01(v) ==
  IF DCmp(v, DZero) < 0 THEN DZero ELSE IF DCmp(v, DOne) > 0 THEN DOne ELSE v

\* an ease-in only curve
easeInOut01Quad(u) == DMul(u, u)

easeInOut01(u) == DMul(DMul(u, u), DSub(DThree, DMul(DTwo, u)))

\* Number.prototype.toFixed(1) of a value in 1/CH: the decimal in tenths
toFixed1(x) == (x + (CH \div 20)) \div (CH \div 10)

\* Number.prototype.toFixed(3): the decimal in thousandths
toFixed3(x) == IF x.neg THEN -DNearest(x, 1000) ELSE DNearest(x, 1000)

\* a palette scalar in 1/CH, the unit of the arithmetic on hue and lightness
milli(x) == IF x.neg THEN -DScaledFloor(x, CH) ELSE DScaledFloor(x, CH)

(***************************************************************************)
(* Themes.  A palette's channels and scalars are Numbers.                  *)
(***************************************************************************)
Rgb(r, g, b) == <<DFromInt(r), DFromInt(g), DFromInt(b)>>
\* alpha given in thousandths
Rgba(r, g, b, a) == <<DFromInt(r), DFromInt(g), DFromInt(b), DDec(a, 1000)>>

DEFAULT_THEME ==
  [sky |-> <<Rgb(184, 242, 168), Rgb(114, 228, 184), Rgb(56, 184, 216),
             Rgb(34, 85, 196), Rgb(30, 52, 160), Rgb(16, 11, 88)>>,
   fog |-> <<Rgba(100, 210, 235, 100), Rgba(55, 135, 220, 200),
             Rgba(55, 130, 215, 200), Rgba(28, 65, 170, 100)>>,
   treeHueMin |-> DFromInt(174),
   treeHueMax |-> DFromInt(216),
   treeSat |-> DFromInt(58),
   treeLightMin |-> DFromInt(36),
   treeLightMax |-> DFromInt(52)]

\* a second palette the loader may read from the page (a dark theme)
NIGHT_THEME ==
  [sky |-> <<Rgb(20, 24, 82), Rgb(16, 18, 60), Rgb(12, 12, 44),
             Rgb(8, 8, 30), Rgb(4, 4, 18), Rgb(0, 0, 8)>>,
   fog |-> <<Rgba(40, 60, 120, 450), Rgba(20, 30, 90, 300),
             Rgba(20, 28, 80, 300), Rgba(8, 10, 40, 150)>>,
   treeHueMin |-> DFromInt(228),
   treeHueMax |-> DFromInt(282),
   treeSat |-> DDec(445, 10),
   treeLightMin |-> DFromInt(18),
   treeLightMax |-> DFromInt(41)]

\* a partial palette as a theme message may carry it: no fog array
PARTIAL_THEME ==
  [sky |-> NIGHT_THEME.sky,
   treeHueMin |-> NIGHT_THEME.treeHueMin,
   treeHueMax |-> NIGHT_THEME.treeHueMax,
   treeSat |-> NIGHT_THEME.treeSat,
   treeLightMin |-> NIGHT_THEME.treeLightMin,
   treeLightMax |-> NIGHT_THEME.treeLightMax]

\* the value of a variable that holds null
Null == [null |-> TRUE]

rgbStr(c) == <<"rgb", DTrunc(c[1]), DTrunc(c[2]), DTrunc(c[3])>>
rgbaStr(c) ==
  <<"rgba", DTrunc(c[1]), DTrunc(c[2]), DTrunc(c[3]), toFixed3(c[4])>>

cloneTheme(t) ==
  [sky |-> [i \in DOMAIN t.sky |-> [k \in DOMAIN t.sky[i] |-> t.sky[i][k]]],
   fog |-> [i \in DOMAIN t.fog |-> [k \in DOMAIN t.fog[i] |-> t.fog[i][k]]],
   treeHueMin |-> t.treeHueMin,
   treeHueMax |-> t.treeHueMax,
   treeSat |-> t.treeSat,
   treeLightMin |-> t.treeLightMin,
   treeLightMax |-> t.treeLightMax]

\* a + (b - a) * t
lerp(a, b, t) == DAdd(a, DMul(DSub(b, a), t))

lerpTheme(a, b, t) ==
  [sky |-> [i \in DOMAIN a.sky |->
              <<lerp(a.sky[i][1], b.sky[i][1], t),
                lerp(a.sky[i][2], b.sky[i][2], t),
                lerp(a.sky[i][3], b.sky[i][3], t)>>],
   fog |-> [i \in DOMAIN a.fog |->
              <<lerp(a.fog[i][1], b.fog[i][1], t),
                lerp(a.fog[i][2], b.fog[i][2], t),
                lerp(a.fog[i][3], b.fog[i][3], t),
                lerp(a.fog[i][4], b.fog[i][4], t)>>],
   treeHueMin |-> lerp(a.treeHueMin, b.treeHueMin, t),
   treeHueMax |-> lerp(a.treeHueMax, b.treeHueMax, t),
   treeSat |-> lerp(a.treeSat, b.treeSat, t),
   treeLightMin |-> lerp(a.treeLightMin, b.treeLightMin, t),
   treeLightMax |-> lerp(a.treeLightMax, b.treeLightMax, t)]

(***************************************************************************)
(* Per-tree colour strings.  Hue, saturation and lightness are computed in *)
(* decimal arithmetic at 1/CH, from the palette's scalars cut to 1/CH.     *)
(***************************************************************************)
\* the five scalars of a palette, in 1/CH
treeScalars(theme) ==
  [treeHueMin |-> milli(theme.treeHueMin),
   treeHueMax |-> milli(theme.treeHueMax),
   treeSat |-> milli(theme.treeSat),
   treeLightMin |-> milli(theme.treeLightMin),
   treeLightMax |-> milli(theme.treeLightMax)]

\* hue of a tree: hueRng is in 1/1000
treeHue(sc, hueRng) ==
  sc.treeHueMin + ((hueRng * (sc.treeHueMax - sc.treeHueMin)) \div 1000)

solidColorsOf(sc, hueRng) ==
  [d \in 1..DEPTH_QUANT |->
     LET l == sc.treeLightMin +
              (((d - 1) * (sc.treeLightMax - sc.treeLightMin))
                 \div (DEPTH_QUANT - 1))
     IN  <<"hsl", toFixed1(treeHue(sc, hueRng)), toFixed1(sc.treeSat),
           toFixed1(l)>>]

gradStopsOf(sc, hueRng) ==
  LET hue == treeHue(sc, hueRng)
      g0 == Min(90 * CH, sc.treeLightMax + (28 * CH))
      g1 == Min(72 * CH, sc.treeLightMax + (16 * CH))
      g2 == Min(54 * CH, sc.treeLightMax + (6 * CH))
      g3 == Max(8 * CH, sc.treeLightMin - (4 * CH))
  IN  << <<"hsla", toFixed1(hue - (14 * CH)), 86, toFixed1(g0), 620>>,
         <<"hsla", toFixed1(hue - (7 * CH)), 76, toFixed1(g1), 350>>,
         <<"hsla", toFixed1(hue), 66, toFixed1(g2), 110>>,
         <<"hsla", toFixed1(hue + (10 * CH)), 56, toFixed1(g3), 0>> >>

\* rebuildTreeColors, for one tree
\* the rebuild mirroring the tree's hueRng within its range
rebuildTreeColorMirrorsHue(t, theme) ==
  Only({[t EXCEPT !.hueRng = 1000 - t.hueRng,
                  !.solidColors = solidColorsOf(sc, t.hueRng),
                  !.gradStops = gradStopsOf(sc, t.hueRng)]
        : sc \in {treeScalars(theme)}})

rebuildTreeColor(t, theme) ==
  Only({[t EXCEPT !.solidColors = solidColorsOf(sc, t.hueRng),
                  !.gradStops = gradStopsOf(sc, t.hueRng)]
        : sc \in {treeScalars(theme)}})

\* ctx.createLinearGradient(0, y0, 0, y1) with its colour stops
linearGradient(y0, y1, stops) == [y0 |-> y0, y1 |-> y1, stops |-> stops]

\* rebuildTreeGradients leaving the cached object as it is
rebuildTreeGradientStale(t, top, bottom) == t

\* rebuildTreeGradients, for one tree
rebuildTreeGradient(t, top, bottom) ==
  [t EXCEPT !.gradCache = linearGradient(top, bottom, t.gradStops)]

\* buildSceneGradients: the record g
buildSceneGradients(theme, h) ==
  [bg |-> linearGradient(0, h, [i \in 1..6 |-> rgbStr(theme.sky[i])]),
   fog |-> linearGradient(0, h, [i \in 1..4 |-> rgbaStr(theme.fog[i])])]

(***************************************************************************)
(* Sorting.                                                                *)
(***************************************************************************)
\* the inner loop without its final store of the key
RECURSIVE insertKeyDropsKey(_, _, _)
insertKeyDropsKey(arr, j, key) ==
  IF j >= 1 /\ arr[j].z < key.z
  THEN Only({insertKeyDropsKey(a, j - 1, key) : a \in {[arr EXCEPT ![j + 1] = arr[j]]}})
  ELSE arr

\* the inner loop comparing with <= : equal elements swap
RECURSIVE insertKeyLe(_, _, _)
insertKeyLe(arr, j, key) ==
  IF j >= 1 /\ arr[j].z <= key.z
  THEN Only({insertKeyLe(a, j - 1, key) : a \in {[arr EXCEPT ![j + 1] = arr[j]]}})
  ELSE [arr EXCEPT ![j + 1] = key]

\* the inner while loop of sortByZDesc: shift smaller elements right of j
RECURSIVE insertKey(_, _, _)
insertKey(arr, j, key) ==
  IF j >= 1 /\ arr[j].z < key.z
  THEN Only({insertKey(a, j - 1, key) : a \in {[arr EXCEPT ![j + 1] = arr[j]]}})
  ELSE [arr EXCEPT ![j + 1] = key]

\* the outer for loop of sortByZDesc, from (1-based) index i
RECURSIVE sortFrom(_, _)
sortFrom(arr, i) ==
  IF i > Len(arr)
  THEN arr
  ELSE Only({sortFrom(a, i + 1) : a \in {insertKey(arr, i - 1, arr[i])}})

\* Insertion sort descending by .z
sortByZDesc(arr) == sortFrom(arr, 2)

\* Array.prototype.sort((a, b) => b.z - a.z): a stable sort, descending by z.
\* The element at index i lands after every element with a larger z and after
\* the equal-z elements that stood before it.
arraySortDesc(arr) ==
  Only({LET n == Len(a)
            before(k, i) == \/ a[k].z > a[i].z
                            \/ a[k].z = a[i].z /\ k < i
            rank(i) == Cardinality({k \in 1..n : before(k, i)}) + 1
        IN  IF n = 0 THEN <<>>
            ELSE [p \in 1..n |-> a[CHOOSE i \in 1..n : rank(i) = p]]
        : a \in {arr}})

(***************************************************************************)
(* Forest construction.                                                    *)
(***************************************************************************)
\* the column centres: 0, +s, -s, +2s, -2s, ... while x <= HALF_W + 0.01
RECURSIVE colsFrom(_)
colsFrom(x) ==
  IF x > HALF_W + (ZU \div 100) THEN <<>>
  ELSE (IF x > 0 THEN <<x, -x>> ELSE <<x>>) \o colsFrom(x + X_SPACING)

cols == colsFrom(0)

\* Math.floor in place of Math.ceil
rowsPerColFloor == DEPTH_FAR \div Z_SPACING

\* Math.ceil(DEPTH_FAR / Z_SPACING)
rowsPerColOf == (DEPTH_FAR + Z_SPACING - 1) \div Z_SPACING

\* the closure's seed after n calls from the initial seed
seedAfter(n) == Add32(RNG_SEED, Imul32(RNG_INC, <<0, n>>))

\* the n-th value (1-based) the generator returns, as a 32-bit word
rngWord(n) == mulberry32Out(seedAfter(n - 1))

\* the tree buildForest pushes k-th (0-based), for column centre cx and row;
\* its five generator calls are x, z, trunkW, hue, lit, in this order
newTree(k, cx, row, theme) ==
  LET treeX == cx + randS(rngWord((5 * k) + 1), -X_JITTER, X_JITTER)
      treeZ == ((row + 1) * Z_SPACING) +
               randS(rngWord((5 * k) + 2), 0, (Z_SPACING * 3) \div 10)
      trunkW == randS(rngWord((5 * k) + 3), (55 * ZU) \div 100, (110 * ZU) \div 100)
      hueRng == randS(rngWord((5 * k) + 4), 0, 1000)
      lit == randS(rngWord((5 * k) + 5), (55 * ZU) \div 100, ZU)
  IN  [id |-> k + 1,
       x |-> treeX,
       z |-> treeZ,
       trunkW |-> trunkW,
       hueRng |-> hueRng,
       lit |-> lit,
       fade |-> FADE_ONE,
       recycleWait |-> 0,
       solidColors |-> solidColorsOf(treeScalars(theme), hueRng),
       gradStops |-> gradStopsOf(treeScalars(theme), hueRng),
       gradCache |-> Null]

\* the trees pushed for columns ci.. in build order, of which the model
\* tracks those of the first PoolCols columns and the first PoolRows rows
RECURSIVE pushTrees(_, _, _)
pushTrees(ci, row, theme) ==
  IF ci > Len(cols) \/ ci > PoolCols THEN <<>>
  ELSE IF row >= rowsPerColOf \/ row >= PoolRows THEN pushTrees(ci + 1, 0, theme)
  ELSE <<newTree(((ci - 1) * rowsPerColOf) + row, cols[ci], row, theme)>>
         \o pushTrees(ci, row + 1, theme)

\* buildForest: the pool it leaves
buildForest(theme) == arraySortDesc(pushTrees(1, 0, theme))

(***************************************************************************)
(* Update (physics).                                                       *)
(***************************************************************************)
\* the loop body with the wait timer started only below z = 0
advanceTreeLateWait(tr, d) ==
  LET z1 == tr.z - (SPEED_BASE * d)
      wait1 == tr.recycleWait + d
  IN  IF z1 < 0
      THEN IF wait1 >= RECYCLE_DELAY_MS
           THEN [tr EXCEPT !.z = z1 + (rowsPerColOf * Z_SPACING),
                           !.fade = 0,
                           !.recycleWait = 0]
           ELSE [tr EXCEPT !.z = z1, !.recycleWait = wait1]
      ELSE [tr EXCEPT !.z = z1, !.recycleWait = 0]

\* the loop body recycling without resetting fade
advanceTreeKeepsFade(tr, d) ==
  LET z1 == tr.z - (SPEED_BASE * d)
      wait1 == tr.recycleWait + d
  IN  IF z1 < RECYCLE_NEAR_Z
      THEN IF wait1 >= RECYCLE_DELAY_MS
           THEN [tr EXCEPT !.z = z1 + (rowsPerColOf * Z_SPACING),
                           !.recycleWait = 0]
           ELSE [tr EXCEPT !.z = z1, !.recycleWait = wait1]
      ELSE [tr EXCEPT !.z = z1, !.recycleWait = 0]

\* the loop body recycling without resetting the wait timer
advanceTreeKeepsWait(tr, d) ==
  LET z1 == tr.z - (SPEED_BASE * d)
      fade1 == IF tr.fade < FADE_ONE
               THEN Min(FADE_ONE, tr.fade + (d * FADE_RATE))
               ELSE tr.fade
      wait1 == tr.recycleWait + d
  IN  IF z1 < RECYCLE_NEAR_Z
      THEN IF wait1 >= RECYCLE_DELAY_MS
           THEN [tr EXCEPT !.z = z1 + (rowsPerColOf * Z_SPACING),
                           !.fade = 0,
                           !.recycleWait = wait1]
           ELSE [tr EXCEPT !.z = z1, !.fade = fade1, !.recycleWait = wait1]
      ELSE [tr EXCEPT !.z = z1, !.fade = fade1, !.recycleWait = 0]

\* the loop body raising fade without the cap at 1
advanceTreeUncappedFade(tr, d) ==
  LET z1 == tr.z - (SPEED_BASE * d)
      fade1 == IF tr.fade < FADE_ONE THEN tr.fade + (d * FADE_RATE) ELSE tr.fade
      wait1 == tr.recycleWait + d
  IN  IF z1 < RECYCLE_NEAR_Z
      THEN IF wait1 >= RECYCLE_DELAY_MS
           THEN [tr EXCEPT !.z = z1 + (rowsPerColOf * Z_SPACING),
                           !.fade = 0,
                           !.recycleWait = 0]
           ELSE [tr EXCEPT !.z = z1, !.fade = fade1, !.recycleWait = wait1]
      ELSE [tr EXCEPT !.z = z1, !.fade = fade1, !.recycleWait = 0]

\* the loop body recycling by one row instead of the column's row-span
advanceTreeOneRow(tr, d) ==
  LET z1 == tr.z - (SPEED_BASE * d)
      fade1 == IF tr.fade < FADE_ONE
               THEN Min(FADE_ONE, tr.fade + (d * FADE_RATE))
               ELSE tr.fade
      wait1 == tr.recycleWait + d
  IN  IF z1 < RECYCLE_NEAR_Z
      THEN IF wait1 >= RECYCLE_DELAY_MS
           THEN [tr EXCEPT !.z = z1 + Z_SPACING,
                           !.fade = 0,
                           !.recycleWait = 0]
           ELSE [tr EXCEPT !.z = z1, !.fade = fade1, !.recycleWait = wait1]
      ELSE [tr EXCEPT !.z = z1, !.fade = fade1, !.recycleWait = 0]

\* the body of update's loop over the trees, for one tree
advanceTree(tr, d) ==
  LET z1 == tr.z - (SPEED_BASE * d)
      fade1 == IF tr.fade < FADE_ONE
               THEN Min(FADE_ONE, tr.fade + (d * FADE_RATE))
               ELSE tr.fade
      wait1 == tr.recycleWait + d
  IN  IF z1 < RECYCLE_NEAR_Z
      THEN IF wait1 >= RECYCLE_DELAY_MS
           THEN [tr EXCEPT !.z = z1 + (rowsPerColOf * Z_SPACING),
                           !.fade = 0,
                           !.recycleWait = 0]
           ELSE [tr EXCEPT !.z = z1, !.fade = fade1, !.recycleWait = wait1]
      ELSE [tr EXCEPT !.z = z1, !.fade = fade1, !.recycleWait = 0]

\* update without its closing sort
updateTreesNoSort(pool, d) == [i \in DOMAIN pool |-> advanceTree(pool[i], d)]

\* update: move every tree, then sort the pool
updateTrees(pool, d) ==
  Only({sortByZDesc(moved) : moved \in {[i \in DOMAIN pool |-> advanceTree(pool[i], d)]}})

(***************************************************************************)
(* Camera.  Math.cos and Math.sin are functions of their argument; the     *)
(* model keeps the argument: the waypoint segment and the time within it   *)
(* for the yaw, the timestamp for the drift.                               *)
(***************************************************************************)
VIEW_WAYPOINTS == <<90, 75, 115, 90>>
VIEW_SWEEP_MS == 30000
SEG_COUNT == Len(VIEW_WAYPOINTS) - 1
SEG_MS == VIEW_SWEEP_MS \div SEG_COUNT

\* yawCos = 1, yawSin = 0 and cam.x = 0 as the module loads
YAW_LOAD == [fn |-> "load"]
CAMX_LOAD == [fn |-> "load"]

\* the yaw update computes at timestamp t: the segment, its two waypoints and
\* the time into the segment (segU = u / SEG_MS)
yawAt(t) ==
  LET localT == t % VIEW_SWEEP_MS
      seg == Min(localT \div SEG_MS, SEG_COUNT - 1)
  IN  [fn |-> "sweep", from |-> VIEW_WAYPOINTS[seg + 1],
       to |-> VIEW_WAYPOINTS[seg + 2], u |-> localT - (seg * SEG_MS)]

\* the drift update computes at timestamp t: three sines of t
driftAt(t) == [fn |-> "drift", t |-> t]

(***************************************************************************)
(* State.                                                                  *)
(***************************************************************************)
VARIABLES
  started,             \* the init message has been handled (canvas, ctx set)
  now,                 \* performance.now() of the engine's context, ms
  W, H,                \* viewport size
  topY, bottomY,       \* clip lines, in 1/100 px
  fov,                 \* cam.fov, in 1/100 px
  trees,               \* the pool
  g,                   \* background and fog gradient cache
  rowsPerCol,
  cur,                 \* current (possibly interpolated) theme snapshot
  themeFrom, themeTo, themeStartT, themeTransitioning,
  lastT,               \* timestamp of the previous frame
  dt,                  \* dt of the latest frame
  fx,                  \* what the latest handler did, in call order
  ticks, themeMsgs,    \* frames run (counted up to MaxTicks), theme messages handled
  scheduled,           \* a frame is pending (requestAnimationFrame or setTimeout)
  yaw, camX,           \* the camera: what yawCos, yawSin and cam.x are computed from
  host,                \* where the engine runs: "worker" or "main" (IS_WORKER)
  probe                \* input and result of a function applied on its own

vars == <<started, now, W, H, topY, bottomY, fov, trees, g, rowsPerCol, cur,
          themeFrom, themeTo, themeStartT, themeTransitioning, lastT, dt, fx,
          ticks, themeMsgs, scheduled, yaw, camX, host, probe>>

\* viewport sizes a message may carry
Sizes == {<<0, 0>>, <<800, 600>>}
\* palettes a message may carry
Palettes == {DEFAULT_THEME, NIGHT_THEME}
\* time between two frames, ms
Gaps == {16, 500}

\* the module as loaded, before any message
EngineInit ==
  /\ started = FALSE
  /\ now = 0
  /\ W = 0 /\ H = 0
  /\ topY = 0 /\ bottomY = 0
  /\ fov = 0
  /\ trees = <<>>
  /\ g = Null
  /\ rowsPerCol = 0
  /\ cur = Null
  /\ themeFrom = Null /\ themeTo = Null
  /\ themeStartT = -1
  /\ themeTransitioning = FALSE
  /\ lastT = 0
  /\ dt = 0
  /\ fx = [handler |-> "none", steps |-> <<>>]
  /\ ticks = 0 /\ themeMsgs = 0
  /\ scheduled = FALSE
  /\ yaw = YAW_LOAD /\ camX = CAMX_LOAD
  /\ host = "none"

Init == EngineInit /\ probe = Null

(***************************************************************************)
(* rebuildAllColors and handleResize.                                      *)
(***************************************************************************)
\* rebuildAllColors on a pool built anew
rebuildAllColorsTreesRebuilt(pool, theme, top, bottom) ==
  [i \in DOMAIN pool |->
     rebuildTreeGradient(rebuildTreeColor(buildForest(theme)[i], theme), top, bottom)]

\* rebuildAllColors without its call of rebuildTreeColors
rebuildAllColorsTreesGradientsOnly(pool, theme, top, bottom) ==
  [i \in DOMAIN pool |-> rebuildTreeGradient(pool[i], top, bottom)]

\* rebuildAllColors: the pool it leaves (ctx is set from init on)
rebuildAllColorsTrees(pool, theme, top, bottom) ==
  [i \in DOMAIN pool |->
     rebuildTreeGradient(rebuildTreeColor(pool[i], theme), top, bottom)]

\* rebuildAllColors: the calls it makes
rebuildAllColorsSteps ==
  <<"buildSceneGradients", "rebuildTreeColors", "rebuildTreeGradients">>

clipTop(h) == -(h * 12)
clipBottom(h) == h * 112

\* handleResize(w, h, deviceDpr) on a pool and theme snapshot
handleResize(w, h, pool, theme) ==
  /\ W' = w
  /\ H' = h
  /\ fov' = Max(w, h) * 155
  /\ topY' = clipTop(h)
  /\ bottomY' = clipBottom(h)
  /\ g' = buildSceneGradients(theme, h)
  /\ trees' = rebuildAllColorsTrees(pool, theme, clipTop(h), clipBottom(h))

(***************************************************************************)
(* Messages.                                                               *)
(***************************************************************************)
\* onmessage, init { canvas, w, h, dpr, theme? }: theme is a palette or Null
onInit(w, h, theme) ==
  /\ ~started
  /\ started' = TRUE
  /\ cur' = cloneTheme(IF theme = Null THEN DEFAULT_THEME ELSE theme)
  /\ themeTransitioning' = FALSE
  /\ rowsPerCol' = rowsPerColOf
  /\ handleResize(w, h, buildForest(cur'), cur')
  /\ scheduled' = TRUE
  /\ fx' = [handler |-> "init",
            steps |-> <<"buildForest", "handleResize">> \o rebuildAllColorsSteps
                        \o <<"scheduleFrame">>]
  /\ UNCHANGED <<now, themeFrom, themeTo, themeStartT, lastT, dt, ticks, themeMsgs,
                 yaw, camX, probe>>

\* the init message reaches the engine in its worker
InitMsg(w, h, theme) == host' = "worker" /\ onInit(w, h, theme)

\* onmessage, resize { w, h, dpr }
onResize(w, h) ==
  /\ started
  /\ handleResize(w, h, trees, cur)
  /\ fx' = [handler |-> "resize",
            steps |-> <<"handleResize">> \o rebuildAllColorsSteps]
  /\ UNCHANGED <<started, now, rowsPerCol, cur, themeFrom, themeTo, themeStartT,
                 themeTransitioning, lastT, dt, ticks, themeMsgs, scheduled,
                 yaw, camX, probe>>

ResizeMsg(w, h) == host = "worker" /\ UNCHANGED host /\ onResize(w, h)

\* setThemeTarget starting from the previous target instead of cur
setThemeTargetFromOldTarget(theme) ==
  /\ themeFrom' = (IF themeTo # Null THEN cloneTheme(themeTo)
                   ELSE IF cur # Null THEN cloneTheme(cur) ELSE cloneTheme(theme))
  /\ themeTo' = theme
  /\ themeStartT' = now
  /\ themeTransitioning' = TRUE

\* setThemeTarget(theme)
setThemeTarget(theme) ==
  /\ themeFrom' = (IF cur # Null THEN cloneTheme(cur) ELSE cloneTheme(theme))
  /\ themeTo' = theme
  /\ themeStartT' = now
  /\ themeTransitioning' = TRUE

\* onmessage, theme { palette }
onTheme(theme) ==
  /\ started
  /\ setThemeTarget(theme)
  /\ themeMsgs' = themeMsgs + 1
  /\ fx' = [handler |-> "theme", steps |-> <<"setThemeTarget">>]
  /\ UNCHANGED <<started, now, W, H, topY, bottomY, fov, trees, g, rowsPerCol,
                 cur, lastT, dt, ticks, scheduled, yaw, camX, probe>>

ThemeMsg(theme) == host = "worker" /\ UNCHANGED host /\ onTheme(theme)

(***************************************************************************)
(* The engine on the owning thread (no OffscreenCanvas): the script's      *)
(* else-branch runs the boot sequence, the debounced resize listener calls *)
(* resizeMain, and the loader calls window.__bgSetTheme.                   *)
(***************************************************************************)
\* the boot sequence with window.__bgTheme ignored
mainBootDefaultTheme(w, h, theme) ==
  /\ ~started
  /\ started' = TRUE
  /\ cur' = cloneTheme(DEFAULT_THEME)
  /\ themeTransitioning' = FALSE
  /\ rowsPerCol' = rowsPerColOf
  /\ handleResize(w, h, buildForest(cur'), cur')
  /\ scheduled' = TRUE
  /\ fx' = [handler |-> "init",
            steps |-> <<"buildForest", "handleResize">> \o rebuildAllColorsSteps
                        \o <<"scheduleFrame">>]
  /\ UNCHANGED <<now, themeFrom, themeTo, themeStartT, lastT, dt, ticks, themeMsgs,
                 yaw, camX, probe>>

\* the boot sequence: w, h are innerWidth, innerHeight, theme is
\* window.__bgTheme (a palette or Null)
mainBoot(w, h, theme) ==
  /\ ~started
  /\ started' = TRUE
  /\ cur' = cloneTheme(IF theme # Null THEN theme ELSE DEFAULT_THEME)
  /\ themeTransitioning' = FALSE
  /\ rowsPerCol' = rowsPerColOf
  /\ handleResize(w, h, buildForest(cur'), cur')
  /\ scheduled' = TRUE
  /\ fx' = [handler |-> "init",
            steps |-> <<"buildForest", "handleResize">> \o rebuildAllColorsSteps
                        \o <<"scheduleFrame">>]
  /\ UNCHANGED <<now, themeFrom, themeTo, themeStartT, lastT, dt, ticks, themeMsgs,
                 yaw, camX, probe>>

MainBoot(w, h, theme) == host' = "main" /\ mainBoot(w, h, theme)

\* resizeMain, run by the resize listener's timer
resizeMain(w, h) ==
  /\ started
  /\ handleResize(w, h, trees, cur)
  /\ fx' = [handler |-> "resize",
            steps |-> <<"handleResize">> \o rebuildAllColorsSteps]
  /\ UNCHANGED <<started, now, rowsPerCol, cur, themeFrom, themeTo, themeStartT,
                 themeTransitioning, lastT, dt, ticks, themeMsgs, scheduled,
                 yaw, camX, probe>>

MainResize(w, h) == host = "main" /\ UNCHANGED host /\ resizeMain(w, h)

\* window.__bgSetTheme(theme)
bgSetTheme(theme) ==
  /\ started
  /\ setThemeTarget(theme)
  /\ themeMsgs' = themeMsgs + 1
  /\ fx' = [handler |-> "theme", steps |-> <<"setThemeTarget">>]
  /\ UNCHANGED <<started, now, W, H, topY, bottomY, fov, trees, g, rowsPerCol,
                 cur, lastT, dt, ticks, scheduled, yaw, camX, probe>>

MainSetTheme(theme) == host = "main" /\ UNCHANGED host /\ bgSetTheme(theme)

(***************************************************************************)
(* Frame loop.                                                             *)
(***************************************************************************)
\* the eased interpolation parameter updateThemeTransition computes at ts
easedAt(elapsed) ==
  easeInOut01(clamp01(DDivInt(DFromInt(elapsed), THEME_DURATION)))

themeT(ts) == easedAt(ts - themeStartT)

\* the early return lost: a step is applied whenever a target was ever set
themeStepAlways == themeTo # Null

\* updateThemeTransition returns at once unless a transition is active
themeStepApplies == themeTransitioning

\* the test that ends the transition: t >= 1
themeDone(t) == DCmp(t, DOne) >= 0

\* cur after updateThemeTransition, an idle frame reverting to themeFrom
updateThemeTransitionCurReverts(t) ==
  IF themeStepApplies THEN lerpTheme(themeFrom, themeTo, t)
  ELSE IF themeFrom # Null THEN themeFrom ELSE cur

\* cur after updateThemeTransition: overwritten while a transition is
\* active, left alone otherwise
updateThemeTransitionCur(t) ==
  IF themeStepApplies THEN lerpTheme(themeFrom, themeTo, t) ELSE cur

\* dt of the frame at ts, without the ceiling
frameDtUnclamped(ts) == IF lastT # 0 THEN ts - lastT ELSE DT_FIRST

\* dt of the frame at ts
frameDt(ts) == IF lastT # 0 THEN Min(ts - lastT, DT_MAX) ELSE DT_FIRST

\* lerpTheme throws a TypeError: it indexes b.sky and b.fog
lerpThemeThrows(a, b) == "sky" \notin DOMAIN b \/ "fog" \notin DOMAIN b

\* the frame throwing in every step of a transition
frameThrowsInTransition == themeStepApplies

\* the frame throws inside updateThemeTransition
frameThrows == themeStepApplies /\ lerpThemeThrows(themeFrom, themeTo)

\* frame(ts) up to the exception: lastT is assigned, cur is not, and
\* scheduleFrame at the end of frame is not reached
FrameAborted(ts, d) ==
  /\ now' = ts
  /\ dt' = d
  /\ lastT' = ts
  /\ scheduled' = FALSE
  /\ ticks' = Min(ticks + 1, MaxTicks)
  /\ fx' = [handler |-> "tick",
            steps |-> <<"updateThemeTransition", "lerpTheme", "TypeError">>]
  /\ UNCHANGED <<started, W, H, topY, bottomY, fov, trees, g, rowsPerCol, cur,
                 themeFrom, themeTo, themeStartT, themeTransitioning, themeMsgs,
                 yaw, camX, host, probe>>

\* the gradient the background is filled with, were it read before the
\* theme step of the frame
bgFillStyleStale(before, after) == before.bg

\* g.bg as the background fillRect reads it, after updateThemeTransition
bgFillStyle(before, after) == after.bg

\* cam.x after update(dt, t), were the drift advanced by dt
updateCamXByDt(d, ts) ==
  IF camX = CAMX_LOAD THEN driftAt(d) ELSE driftAt(camX.t + d)

\* cam.x after update(dt, t)
updateCamX(d, ts) == driftAt(ts)

\* frame(ts) running to its end
FrameRuns(ts, d) ==
  \E t \in {IF themeStepApplies THEN themeT(ts) ELSE DZero} :
  \E theme1 \in {updateThemeTransitionCur(t)} :
  \E pool1 \in {IF themeStepApplies
                 THEN rebuildAllColorsTrees(trees, theme1, topY, bottomY)
                 ELSE trees} :
      /\ now' = ts
      /\ dt' = d
      /\ lastT' = ts
      /\ cur' = theme1
      /\ g' = (IF themeStepApplies THEN buildSceneGradients(theme1, H) ELSE g)
      /\ themeTransitioning' = (IF themeStepApplies THEN ~themeDone(t)
                                 ELSE themeTransitioning)
      /\ yaw' = yawAt(ts)
      /\ camX' = updateCamX(d, ts)
      /\ trees' = updateTrees(pool1, d)
      /\ scheduled' = TRUE
      /\ ticks' = Min(ticks + 1, MaxTicks)
      /\ fx' = [handler |-> "tick",
                steps |-> <<"updateThemeTransition">>
                            \o (IF themeStepApplies
                                THEN <<"lerpTheme">> \o rebuildAllColorsSteps
                                ELSE <<>>)
                            \o <<"fillRect bg", "update", "sortByZDesc", "drawTrees",
                                 "fillRect fog", "scheduleFrame">>,
                bg |-> bgFillStyle(g, g'),
                fog |-> g'.fog,
                rect |-> <<W, H>>]
      /\ UNCHANGED <<started, W, H, topY, bottomY, fov, rowsPerCol, themeFrom,
                     themeTo, themeStartT, themeMsgs, host, probe>>

\* frame(ts), ts being gap ms after the current time
Tick(gap) ==
  \E ts \in {now + gap} :
  \E d \in {frameDt(ts)} :
      /\ started
      /\ scheduled
      /\ IF frameThrows THEN FrameAborted(ts, d) ELSE FrameRuns(ts, d)

(***************************************************************************)
(* The engine under any interleaving of messages and frames.               *)
(***************************************************************************)
Next ==
  \/ \E s \in Sizes : \E th \in Palettes \cup {Null} : InitMsg(s[1], s[2], th)
  \/ \E s \in Sizes : ResizeMsg(s[1], s[2])
  \/ themeMsgs < MaxThemeMsgs /\ \E th \in Palettes : ThemeMsg(th)
  \/ ticks < MaxTicks /\ \E gap \in Gaps : Tick(gap)

Spec == Init /\ [][Next]_vars

(***************************************************************************)
(* Long runs: the loader's single init message, then frames at the         *)
(* display's pace until trees are recycled, with resize messages at any    *)
(* time and a theme message early in the run.                              *)
(***************************************************************************)
LongGaps == {16, 32}
LongSizes == {<<1024, 600>>}
\* the display's frame period, ms
FRAME_MS == 16

LongNext ==
  \/ InitMsg(800, 600, Null)
  \/ \E s \in LongSizes : ResizeMsg(s[1], s[2])
  \/ lastT = 0 /\ themeMsgs < 1 /\ ThemeMsg(NIGHT_THEME)
  \/ \E gap \in LongGaps : now + gap <= MaxLongFrames * FRAME_MS /\ Tick(gap)

LongSpec == Init /\ [][LongNext]_vars

(***************************************************************************)
(* Frames keep running: every frame schedules its successor, so a frame is *)
(* always pending, and timestamps advance.  The bound on ticks does not    *)
(* stop the frames of a transition under way.                              *)
(***************************************************************************)
LiveGaps == {300, 500}

LiveTick ==
  (ticks < MaxLiveTicks \/ themeTransitioning) /\ \E gap \in LiveGaps : Tick(gap)

LiveNext ==
  \/ \E th \in {Null, NIGHT_THEME} : InitMsg(800, 600, th)
  \/ \E s \in LongSizes : ResizeMsg(s[1], s[2])
  \/ themeMsgs < MaxThemeMsgs /\ \E th \in Palettes : ThemeMsg(th)
  \/ LiveTick

LiveSpec == Init /\ [][LiveNext]_vars /\ WF_vars(LiveTick)

(***************************************************************************)
(* The frame loop on its own: the loader's init message, resize messages,  *)
(* one theme message, and frames under weak fairness.                      *)
(***************************************************************************)
LoopSizes == {<<800, 600>>, <<1024, 600>>}

LoopTick ==
  (ticks < MaxLiveTicks \/ themeTransitioning) /\ \E gap \in LiveGaps : Tick(gap)

LoopNext ==
  \/ InitMsg(800, 600, Null)
  \/ \E s \in LoopSizes : ResizeMsg(s[1], s[2])
  \/ themeMsgs < 1 /\ ThemeMsg(NIGHT_THEME)
  \/ LoopTick

LoopSpec == Init /\ [][LoopNext]_vars /\ WF_vars(LoopTick)

(***************************************************************************)
(* Retargeting: theme messages at any time, also while a transition is     *)
(* under way, and frames whose timestamp may equal the time of the latest  *)
(* message.                                                                *)
(***************************************************************************)
MaxRetargets == 2
RetargetGaps == {0, 500}

RetargetNext ==
  \/ InitMsg(800, 600, Null)
  \/ themeMsgs < MaxRetargets /\ \E th \in Palettes : ThemeMsg(th)
  \/ ticks < MaxTicks /\ \E gap \in RetargetGaps : Tick(gap)

RetargetSpec == Init /\ [][RetargetNext]_vars

(***************************************************************************)
(* A round trip: the engine starts with one palette, is sent the other,    *)
(* and once that transition is over is sent the first again.               *)
(***************************************************************************)
MaxRoundFrames == 5
RoundGaps == {500, 1000}

RoundNext ==
  \/ \E th \in {Null, NIGHT_THEME} : InitMsg(800, 600, th)
  \/ /\ themeMsgs = 0
     /\ \E th \in Palettes : th # cur /\ ThemeMsg(th)
  \/ /\ themeMsgs = 1
     /\ ~themeTransitioning
     /\ \E th \in Palettes \ {themeTo} : ThemeMsg(th)
  \/ \E gap \in RoundGaps : now + gap <= MaxRoundFrames * 500 /\ Tick(gap)

RoundSpec == Init /\ [][RoundNext]_vars

(***************************************************************************)
(* update called directly on a freshly built pool: the first rows of one   *)
(* column as buildForest pushes them, advanced by one of a few steps.      *)
(***************************************************************************)
AdvanceRows == 3
MaxAdvanceCalls == 2
AdvanceDts == {16, 48, 500, 1000}

\* the trees buildForest pushes for the first rows of column ci
columnTrees(ci, theme) ==
  [r \in 1..Min(AdvanceRows, rowsPerColOf) |->
     newTree(((ci - 1) * rowsPerColOf) + (r - 1), cols[ci], r - 1, theme)]

AdvanceInit ==
  /\ EngineInit
  /\ \E ci \in 1..Len(cols) : \E d \in AdvanceDts :
     \E pool \in {arraySortDesc(columnTrees(ci, DEFAULT_THEME))} :
       probe = [fn |-> "update", before |-> pool, dt |-> d, out |-> pool,
                calls |-> 0]

\* update(dt, t): the loop over the trees and the closing sort, on the probe
AdvanceApply ==
  /\ probe.fn = "update"
  /\ probe.calls < MaxAdvanceCalls
  /\ probe' = [probe EXCEPT !.before = probe.out,
                            !.out = updateTrees(probe.out, probe.dt),
                            !.calls = probe.calls + 1]
  /\ UNCHANGED <<started, now, W, H, topY, bottomY, fov, trees, g, rowsPerCol,
                 cur, themeFrom, themeTo, themeStartT, themeTransitioning,
                 lastT, dt, fx, ticks, themeMsgs, scheduled, yaw, camX, host>>

AdvanceSpec == AdvanceInit /\ [][AdvanceApply]_vars

(***************************************************************************)
(* One tree through its recycle: a tree of the nearest row as buildForest  *)
(* pushes it, advanced frame after frame by the dt that frame computes     *)
(* from the time since the previous frame.                                 *)
(***************************************************************************)
MaxRecycleMs == 2600
RecycleGaps == {16, 40, 48, 1000}

RecycleInit ==
  /\ EngineInit
  /\ \E ci \in 1..Len(cols) :
     \E tr \in {newTree((ci - 1) * rowsPerColOf, cols[ci], 0, DEFAULT_THEME)} :
       probe = [fn |-> "recycle", tr |-> tr, before |-> tr,
                last |-> FALSE, last2 |-> FALSE]

\* frame(ts) as far as one tree goes: dt, lastT, and the loop body of update
RecycleFrame(gap) ==
  \E ts \in {now + gap} :
  \E d \in {frameDt(ts)} :
  \E tr \in {advanceTree(probe.tr, d)} :
      /\ probe.fn = "recycle"
      /\ ts <= MaxRecycleMs
      /\ now' = ts
      /\ lastT' = ts
      /\ dt' = d
      /\ probe' = [probe EXCEPT !.tr = tr,
                                !.before = probe.tr,
                                !.last = (tr.z > probe.tr.z),
                                !.last2 = probe.last]
      /\ UNCHANGED <<started, W, H, topY, bottomY, fov, trees, g, rowsPerCol,
                     cur, themeFrom, themeTo, themeStartT, themeTransitioning,
                     fx, ticks, themeMsgs, scheduled, yaw, camX, host>>

RecycleSpec == RecycleInit /\ [][\E gap \in RecycleGaps : RecycleFrame(gap)]_vars

(***************************************************************************)
(* One tree for as long as frames run: the timestamps are left out, each   *)
(* frame after the first computing its dt from the time since the previous *)
(* one alone, so the tree's states recur and the run has no end.           *)
(***************************************************************************)
CycleCols == 3
CycleGaps == {16, 48, 1000}

\* dt of a frame that is not the first: Math.min(ts - lastT, 48)
cycleDt(gap) == Min(gap, DT_MAX)

CycleInit ==
  /\ EngineInit
  /\ \E ci \in 1..Min(CycleCols, Len(cols)) :
     \E tr \in {newTree((ci - 1) * rowsPerColOf, cols[ci], 0, DEFAULT_THEME)} :
       probe = [fn |-> "cycle", tr |-> tr, last |-> FALSE, recycled |-> FALSE]

\* the loop body of update on the tree, in a frame gap ms after the previous
CycleFrame(gap) ==
  \E tr \in {advanceTree(probe.tr, cycleDt(gap))} :
      /\ probe.fn = "cycle"
      /\ probe' = [probe EXCEPT !.tr = tr,
                                !.last = (tr.z > probe.tr.z),
                                !.recycled = (probe.recycled \/ tr.z > probe.tr.z)]
      /\ UNCHANGED <<started, now, W, H, topY, bottomY, fov, trees, g, rowsPerCol,
                     cur, themeFrom, themeTo, themeStartT, themeTransitioning,
                     lastT, dt, fx, ticks, themeMsgs, scheduled, yaw, camX, host>>

CycleNext == \E gap \in CycleGaps : CycleFrame(gap)

CycleSpec == CycleInit /\ [][CycleNext]_vars /\ WF_vars(CycleNext)

(***************************************************************************)
(* The loader (bg.js, function bg) and the engine.  With OffscreenCanvas   *)
(* the loader posts init and theme messages to the worker, which handles   *)
(* them in the order posted once its script runs; without it the loader    *)
(* stores the palette in window.__bgTheme, appends the engine's script,    *)
(* and passes later palettes to window.__bgSetTheme if the script has      *)
(* defined it.  The page's palette changes at any time; the observer's     *)
(* callback reads it and hands it to sendTheme.                            *)
(***************************************************************************)
MaxPageChanges == 3
MaxLoaderTicks == 2
LoaderModes == {"worker", "fallback"}

\* bg(): the state it leaves, for a page showing palette p
LoaderInit ==
  /\ EngineInit
  /\ \E mode \in LoaderModes : \E p \in Palettes :
       probe = [fn |-> "loader",
                mode |-> mode,
                page |-> p,
                bgTheme |-> IF mode = "fallback" THEN p ELSE Null,
                queue |-> IF mode = "worker"
                          THEN <<[type |-> "init", w |-> 800, h |-> 600, theme |-> p]>>
                          ELSE <<>>,
                read |-> Null,
                changes |-> 0]

\* window.__bgSetTheme is defined once the engine's script has run
bgSetThemeDefined == started /\ host = "main"

\* sendTheme(theme) on the main thread: window.__bgSetTheme(theme)
sendThemeMain(theme) ==
  /\ setThemeTarget(theme)
  /\ themeMsgs' = themeMsgs + 1
  /\ fx' = [handler |-> "theme", steps |-> <<"setThemeTarget">>]
  /\ UNCHANGED <<started, now, W, H, topY, bottomY, fov, trees, g, rowsPerCol,
                 cur, lastT, dt, ticks, scheduled, yaw, camX, host>>

\* the page's palette becomes p; onThemeChange reads it and calls sendTheme
PageThemeChange(p) ==
  /\ probe.fn = "loader"
  /\ probe.changes < MaxPageChanges
  /\ p # probe.page
  /\ IF probe.mode = "worker"
     THEN /\ probe' = [probe EXCEPT !.page = p, !.read = p,
                                    !.changes = probe.changes + 1,
                                    !.queue = Append(probe.queue,
                                                     [type |-> "theme", theme |-> p])]
          /\ UNCHANGED <<started, now, W, H, topY, bottomY, fov, trees, g,
                         rowsPerCol, cur, themeFrom, themeTo, themeStartT,
                         themeTransitioning, lastT, dt, fx, ticks, themeMsgs,
                         scheduled, yaw, camX, host>>
     ELSE /\ probe' = [probe EXCEPT !.page = p, !.read = p,
                                    !.changes = probe.changes + 1]
          /\ IF bgSetThemeDefined
             THEN sendThemeMain(p)
             ELSE UNCHANGED <<started, now, W, H, topY, bottomY, fov, trees, g,
                              rowsPerCol, cur, themeFrom, themeTo, themeStartT,
                              themeTransitioning, lastT, dt, fx, ticks, themeMsgs,
                              scheduled, yaw, camX, host>>

\* self.onmessage for the message at the head of the worker's queue
WorkerDeliver ==
  /\ probe.fn = "loader"
  /\ probe.mode = "worker"
  /\ probe.queue # <<>>
  /\ probe' = [probe EXCEPT !.queue = Tail(probe.queue)]
  /\ \E msg \in {Head(probe.queue)} :
       IF msg.type = "init"
       THEN \E theme \in {cloneTheme(IF msg.theme = Null THEN DEFAULT_THEME
                                        ELSE msg.theme)} :
            \E pool \in {buildForest(theme)} :
            /\ ~started
            /\ started' = TRUE
            /\ host' = "worker"
            /\ cur' = theme
            /\ themeTransitioning' = FALSE
            /\ rowsPerCol' = rowsPerColOf
            /\ handleResize(msg.w, msg.h, pool, theme)
            /\ scheduled' = TRUE
            /\ fx' = [handler |-> "init",
                      steps |-> <<"buildForest", "handleResize">>
                                  \o rebuildAllColorsSteps \o <<"scheduleFrame">>]
            /\ UNCHANGED <<now, themeFrom, themeTo, themeStartT, lastT, dt, ticks,
                           themeMsgs, yaw, camX>>
       ELSE /\ started
            /\ setThemeTarget(msg.theme)
            /\ themeMsgs' = themeMsgs + 1
            /\ fx' = [handler |-> "theme", steps |-> <<"setThemeTarget">>]
            /\ UNCHANGED <<started, now, W, H, topY, bottomY, fov, trees, g,
                           rowsPerCol, cur, lastT, dt, ticks, scheduled, yaw, camX,
                           host>>

\* the engine's script, appended by the loader, runs on the main thread
ScriptLoaded ==
  \E theme \in {cloneTheme(IF probe.bgTheme # Null THEN probe.bgTheme
                            ELSE DEFAULT_THEME)} :
  \E pool \in {buildForest(theme)} :
      /\ probe.fn = "loader"
      /\ probe.mode = "fallback"
      /\ ~started
      /\ started' = TRUE
      /\ host' = "main"
      /\ cur' = theme
      /\ themeTransitioning' = FALSE
      /\ rowsPerCol' = rowsPerColOf
      /\ handleResize(800, 600, pool, theme)
      /\ scheduled' = TRUE
      /\ fx' = [handler |-> "init",
                steps |-> <<"buildForest", "handleResize">>
                            \o rebuildAllColorsSteps \o <<"scheduleFrame">>]
      /\ UNCHANGED <<now, themeFrom, themeTo, themeStartT, lastT, dt, ticks,
                     themeMsgs, yaw, camX, probe>>

LoaderTick == probe.fn = "loader" /\ ticks < MaxLoaderTicks /\ Tick(500)

LoaderNext ==
  \/ \E p \in Palettes : PageThemeChange(p)
  \/ WorkerDeliver
  \/ ScriptLoaded
  \/ LoaderTick

LoaderSpec == LoaderInit /\ [][LoaderNext]_vars

(***************************************************************************)
(* drawTree's fade factors, lines 413-424, as Numbers.  The rotated depth  *)
(* rz and the lateral offset |rx - cam.x| are the inputs; a sweep draws    *)
(* one tree at a fixed fade and offset, each time a step nearer.           *)
(***************************************************************************)
DEPTH_NEAR == 8000
NEAR_FADE_START_Z == 7200
NEAR_FADE_END_Z == 1100
CENTER_FADE_BAND_X == 1350
DRAW_MIN_RZ == 500

\* the Number literal with x thousandths
Num(x) == DDec(x, ZU)

FAR_FADE_INV == DRecip(DMul(Num(DEPTH_FAR), DDec(18, 100)))
NEAR_FADE_INV == DRecip(DSub(Num(NEAR_FADE_START_Z), Num(NEAR_FADE_END_Z)))
INV_CENTER_FADE == DRecip(Num(CENTER_FADE_BAND_X))

farAlphaOf(rz) == clamp01(DMul(DSub(Num(DEPTH_FAR), rz), FAR_FADE_INV))
nearAlphaOf(rz) ==
  easeInOut01(clamp01(DMul(DSub(rz, Num(NEAR_FADE_END_Z)), NEAR_FADE_INV)))
sideKeepOf(absDx) == easeInOut01(clamp01(DMul(absDx, INV_CENTER_FADE)))

\* alpha without the side term
alphaNoSideKeep(fade, rz, absDx) ==
  Only({DMul(DMul(fade, nearAlpha), farAlphaOf(rz))
        : nearAlpha \in {nearAlphaOf(rz)}})

\* const alpha = t.fade * (nearAlpha + (1 - nearAlpha) * sideKeep) * farAlpha
alphaOf(fade, rz, absDx) ==
  Only({DMul(DMul(fade, DAdd(nearAlpha, DMul(DSub(DOne, nearAlpha), sideKeepOf(absDx)))),
             farAlphaOf(rz))
        : nearAlpha \in {nearAlphaOf(rz)}})

MaxAlphaSteps == 110
AlphaStarts == {56000}
AlphaSteps == {500}
AlphaFades == {0, FADE_ONE \div 2, FADE_ONE}
AlphaOffsets == {0, CENTER_FADE_BAND_X \div 2, CENTER_FADE_BAND_X, 3000}

AlphaInit ==
  /\ EngineInit
  /\ \E f \in AlphaFades : \E dx \in AlphaOffsets : \E z \in AlphaStarts :
     \E st \in AlphaSteps :
       probe = [fn |-> "alpha", fade |-> f, absDx |-> dx, rz |-> z, step |-> st,
                alpha |-> Null, prev |-> Null, prevRz |-> z, n |-> 0]

\* drawTree computes alpha at the tree's depth, unless rz <= 0.5 returned first
AlphaDraw ==
  /\ probe.fn = "alpha"
  /\ probe.alpha = Null
  /\ probe.rz > DRAW_MIN_RZ
  /\ probe' = [probe EXCEPT
                 !.alpha = alphaOf(DDec(probe.fade, FADE_ONE), Num(probe.rz),
                                   Num(probe.absDx))]
  /\ UNCHANGED <<started, now, W, H, topY, bottomY, fov, trees, g, rowsPerCol,
                 cur, themeFrom, themeTo, themeStartT, themeTransitioning,
                 lastT, dt, fx, ticks, themeMsgs, scheduled, yaw, camX, host>>

\* the tree a step nearer, drawn again
AlphaNearer ==
  /\ probe.fn = "alpha"
  /\ probe.alpha # Null
  /\ probe.n < MaxAlphaSteps
  /\ probe.rz - probe.step > DRAW_MIN_RZ
  /\ probe' = [probe EXCEPT
                 !.rz = probe.rz - probe.step,
                 !.prevRz = probe.rz,
                 !.prev = probe.alpha,
                 !.n = probe.n + 1,
                 !.alpha = alphaOf(DDec(probe.fade, FADE_ONE),
                                   Num(probe.rz - probe.step), Num(probe.absDx))]
  /\ UNCHANGED <<started, now, W, H, topY, bottomY, fov, trees, g, rowsPerCol,
                 cur, themeFrom, themeTo, themeStartT, themeTransitioning,
                 lastT, dt, fx, ticks, themeMsgs, scheduled, yaw, camX, host>>

AlphaSpec == AlphaInit /\ [][AlphaDraw \/ AlphaNearer]_vars

(***************************************************************************)
(* drawTree's solid body: its three early returns, the normalised depth    *)
(* and the index into the tree's solidColors.  The rotated depth rz, the   *)
(* lateral offset, the tree's fade and the outcome of the off-screen cull  *)
(* are the inputs; array indices are one higher than in the code.          *)
(***************************************************************************)
MaxDrawSteps == 1120
\* the grid of depths drawn, in 1/ZU
DrawRzs == {50 * k : k \in 0..MaxDrawSteps}
DrawFades == {FADE_ONE}
DrawOffsets == {0, 3000}
DrawHues == {500}
\* if (alpha <= 0.002) return
ALPHA_MIN == DDec(2, 1000)

INV_DEPTH_RANGE == DRecip(DSub(Num(DEPTH_FAR), Num(DEPTH_NEAR)))

\* the depth factor without the clamp
depthOfUnclamped(rz) ==
  DSub(DOne, DMul(DSub(rz, Num(DEPTH_NEAR)), INV_DEPTH_RANGE))

\* const depth = clamp01(1 - (rz - DEPTH_NEAR) * INV_DEPTH_RANGE)
depthOf(rz) ==
  clamp01(DSub(DOne, DMul(DSub(rz, Num(DEPTH_NEAR)), INV_DEPTH_RANGE)))

\* const dIdx = (depth * (DEPTH_QUANT - 1) + 0.5) | 0
dIdxOf(depth) ==
  DTrunc(DAdd(DMul(depth, DFromInt(DEPTH_QUANT - 1)), DDec(5, 10)))

DrawInit ==
  /\ EngineInit
  /\ \E z \in DrawRzs : \E f \in DrawFades : \E dx \in DrawOffsets :
     \E h \in DrawHues : \E on \in BOOLEAN :
       probe = [fn |-> "draw", rz |-> z, fade |-> f, absDx |-> dx,
                onScreen |-> on,
                solidColors |-> solidColorsOf(treeScalars(DEFAULT_THEME), h),
                called |-> FALSE, drawn |-> FALSE, alpha |-> Null,
                depth |-> Null, dIdx |-> Null, fillStyle |-> Null]

\* drawTree(t)
DrawTree ==
  /\ probe.fn = "draw"
  /\ ~probe.called
  /\ \E rz \in {Num(probe.rz)} :
     \E depth \in {depthOf(rz)} :
     \E alpha \in {alphaOf(DDec(probe.fade, FADE_ONE), rz, Num(probe.absDx))} :
     \E dIdx \in {dIdxOf(depth)} :
       probe' =
         IF probe.rz <= DRAW_MIN_RZ THEN [probe EXCEPT !.called = TRUE]
         ELSE IF DCmp(alpha, ALPHA_MIN) <= 0
         THEN [probe EXCEPT !.called = TRUE, !.alpha = alpha, !.depth = depth]
         ELSE IF ~probe.onScreen
         THEN [probe EXCEPT !.called = TRUE, !.alpha = alpha, !.depth = depth]
         ELSE [probe EXCEPT !.called = TRUE, !.drawn = TRUE, !.alpha = alpha,
                            !.depth = depth, !.dIdx = dIdx,
                            !.fillStyle =
                              IF (dIdx + 1) \in DOMAIN probe.solidColors
                              THEN probe.solidColors[dIdx + 1]
                              ELSE "undefined"]
  /\ UNCHANGED <<started, now, W, H, topY, bottomY, fov, trees, g, rowsPerCol,
                 cur, themeFrom, themeTo, themeStartT, themeTransitioning,
                 lastT, dt, fx, ticks, themeMsgs, scheduled, yaw, camX, host>>

DrawSpec == DrawInit /\ [][DrawTree]_vars

(***************************************************************************)
(* buildForest, one pass of its inner loop body at a time: ci and row are  *)
(* the loops' positions (`for (const cx of cols)`, `for (let row = 0; row  *)
(* < rowsPerCol; row++)`), out the trees pushed so far with the column and *)
(* row each was pushed for; the sort closes the build.                     *)
(***************************************************************************)
ForestInit ==
  /\ EngineInit
  /\ probe = [fn |-> "forest", ci |-> 1, row |-> 0, out |-> <<>>, sorted |-> FALSE]

ForestPush ==
  /\ probe.fn = "forest"
  /\ probe.ci <= Len(cols)
  /\ probe.row < rowsPerColOf
  /\ \E t \in {newTree(Len(probe.out), cols[probe.ci], probe.row, DEFAULT_THEME)} :
       probe' = [probe EXCEPT
                   !.out = Append(probe.out,
                                  [col |-> probe.ci, row |-> probe.row,
                                   x |-> t.x, z |-> t.z]),
                   !.row = IF probe.row + 1 < rowsPerColOf THEN probe.row + 1 ELSE 0,
                   !.ci = IF probe.row + 1 < rowsPerColOf THEN probe.ci
                          ELSE probe.ci + 1]
  /\ UNCHANGED <<started, now, W, H, topY, bottomY, fov, trees, g, rowsPerCol,
                 cur, themeFrom, themeTo, themeStartT, themeTransitioning,
                 lastT, dt, fx, ticks, themeMsgs, scheduled, yaw, camX, host>>

\* trees.sort((a, b) => b.z - a.z)
ForestSort ==
  /\ probe.fn = "forest"
  /\ probe.ci > Len(cols)
  /\ ~probe.sorted
  /\ probe' = [probe EXCEPT !.out = arraySortDesc(probe.out), !.sorted = TRUE]
  /\ UNCHANGED <<started, now, W, H, topY, bottomY, fov, trees, g, rowsPerCol,
                 cur, themeFrom, themeTo, themeStartT, themeTransitioning,
                 lastT, dt, fx, ticks, themeMsgs, scheduled, yaw, camX, host>>

ForestSpec == ForestInit /\ [][ForestPush \/ ForestSort]_vars

(***************************************************************************)
(* Long enough for a recycled tree to fade in fully: frames three refresh  *)
(* intervals apart, with resizes in between.                               *)
(***************************************************************************)
MaxFadeFrames == 60
FadeGaps == {DT_MAX}

FadeNext ==
  \/ InitMsg(800, 600, Null)
  \/ \E s \in LongSizes : ResizeMsg(s[1], s[2])
  \/ \E gap \in FadeGaps : now + gap <= MaxFadeFrames * DT_MAX /\ Tick(gap)

FadeSpec == Init /\ [][FadeNext]_vars

(***************************************************************************)
(* The yaw sweep's segment arithmetic, lines 470-472, as Numbers, on       *)
(* timestamps around the segment and sweep boundaries.                     *)
(***************************************************************************)
INV_SEG_MS == DRecip(DFromInt(SEG_MS))

\* the timestamp taken as it is
sweepLocalTRaw(t) == t

\* const localT = t % VIEW_SWEEP_MS
sweepLocalT(t) == t % VIEW_SWEEP_MS

\* const seg = Math.min((localT * INV_SEG_MS) | 0, SEG_COUNT - 1)
sweepSeg(localT) == Min(DTrunc(DMul(DFromInt(localT), INV_SEG_MS)), SEG_COUNT - 1)

\* const segU = (localT - seg * SEG_MS) * INV_SEG_MS
sweepSegU(localT, seg) == DMul(DFromInt(localT - (seg * SEG_MS)), INV_SEG_MS)

MaxSweepQuarters == 28
SweepTimes ==
  {t \in {(q * (SEG_MS \div 4)) + o : q \in 0..MaxSweepQuarters, o \in {-1, 0, 1}} :
     t >= 0}

SweepInit ==
  /\ EngineInit
  /\ \E t \in SweepTimes :
       probe = [fn |-> "sweep", t |-> t, seg |-> Null, segU |-> Null,
                reads |-> <<>>, done |-> FALSE]

\* update(dt, t), lines 470-477: the segment, its fraction and the two
\* indices at which VIEW_WAYPOINTS is read (0-based, as in the source)
SweepApply ==
  /\ probe.fn = "sweep"
  /\ ~probe.done
  /\ \E seg \in {sweepSeg(sweepLocalT(probe.t))} :
       probe' = [probe EXCEPT !.seg = seg,
                              !.segU = sweepSegU(sweepLocalT(probe.t), seg),
                              !.reads = <<seg, seg + 1>>,
                              !.done = TRUE]
  /\ UNCHANGED <<started, now, W, H, topY, bottomY, fov, trees, g, rowsPerCol,
                 cur, themeFrom, themeTo, themeStartT, themeTransitioning,
                 lastT, dt, fx, ticks, themeMsgs, scheduled, yaw, camX, host>>

SweepSpec == SweepInit /\ [][SweepApply]_vars

(***************************************************************************)
(* The resize listener and its timer, in the loader (worker host) and in   *)
(* the engine script (owning thread).  probe holds the page's side: the    *)
(* clock, the window's size, the pending timers by due time, and a record  *)
(* of the events and of the resizes that reached the engine.               *)
(***************************************************************************)
RESIZE_DEBOUNCE_MS == 120
MaxResizeEvents == 3
EventGaps == {60, RESIZE_DEBOUNCE_MS - 1, 300}
WindowSizes == {<<800, 600>>, <<1024, 600>>}

\* the listener setting a timer without clearing the pending one
resizeListenerNoClear(timers, t) == timers \cup {t + RESIZE_DEBOUNCE_MS}

\* clearTimeout(tid); tid = setTimeout(..., 120): the timers pending after
\* a resize event at time t
resizeListener(timers, t) == {t + RESIZE_DEBOUNCE_MS}

DebounceInit ==
  /\ EngineInit
  /\ probe = [fn |-> "loader", clock |-> 0, win |-> <<800, 600>>, timers |-> {},
              events |-> 0, lastEvent |-> 0, bursts |-> 0,
              sent |-> 0, sentAt |-> 0]

\* a resize event d ms after the last thing that happened; a pending timer
\* that is due by then runs first
ResizeEvent(d, size) ==
  /\ started
  /\ probe.events < MaxResizeEvents
  /\ \A due \in probe.timers : probe.clock + d < due
  /\ probe' = [probe EXCEPT
                 !.clock = probe.clock + d,
                 !.win = size,
                 !.timers = resizeListener(probe.timers, probe.clock + d),
                 !.events = probe.events + 1,
                 !.lastEvent = probe.clock + d,
                 !.bursts = IF probe.events = 0
                               \/ (probe.clock + d) - probe.lastEvent
                                    >= RESIZE_DEBOUNCE_MS
                            THEN probe.bursts + 1 ELSE probe.bursts]
  /\ UNCHANGED <<started, now, W, H, topY, bottomY, fov, trees, g, rowsPerCol,
                 cur, themeFrom, themeTo, themeStartT, themeTransitioning,
                 lastT, dt, fx, ticks, themeMsgs, scheduled, yaw, camX, host>>

\* the earliest pending timer runs: it reads innerWidth and innerHeight and
\* hands them to the engine, by message (worker) or by resizeMain (owning
\* thread), where handleResize runs
ResizeTimer ==
  /\ started
  /\ probe.timers # {}
  /\ \E due \in probe.timers :
       /\ \A other \in probe.timers : due <= other
       /\ probe' = [probe EXCEPT !.clock = due,
                                 !.timers = probe.timers \ {due},
                                 !.sent = probe.sent + 1,
                                 !.sentAt = due]
  /\ handleResize(probe.win[1], probe.win[2], trees, cur)
  /\ fx' = [handler |-> "resize",
            steps |-> <<"handleResize">> \o rebuildAllColorsSteps]
  /\ UNCHANGED <<started, now, rowsPerCol, cur, themeFrom, themeTo, themeStartT,
                 themeTransitioning, lastT, dt, ticks, themeMsgs, scheduled,
                 yaw, camX, host>>

DebounceNext ==
  \/ InitMsg(800, 600, Null)
  \/ MainBoot(800, 600, Null)
  \/ \E d \in EventGaps : \E size \in WindowSizes : ResizeEvent(d, size)
  \/ ResizeTimer

DebounceSpec == DebounceInit /\ [][DebounceNext]_vars

(***************************************************************************)
(* The renderer variant that draws without a per-frame sort (part_002;     *)
(* part_004 has the same update and frame).  Depths and offsets are in     *)
(* millionths; probe holds the variant's pool and frame.lastT.  Math.random *)
(* is a choice from a few values of its range.                             *)
(***************************************************************************)
VU == 1000 * 1000
SPAWN_NEAR == 24 * VU
SPAWN_FAR == 42 * VU
FOREST_HALF_WIDTH == 9 * VU
VARIANT_NEAR_Z == 120000
VARIANT_DT_MAX == 50
\* scene.speed * 0.0034 per ms
VARIANT_SPEED == 2176
\* |sway| * 0.0012 per ms at the sway's peak, Math.sin = 1
VARIANT_SWAY == 144

MaxVariantTrees == 3
MaxVariantFrames == 3
\* rand(0.15, SPAWN_FAR), the depths resize spawns at
ResizeSpawnZs == {200000, 30 * VU, 41 * VU}
\* rand(SPAWN_NEAR, SPAWN_FAR), the depths update respawns at
RespawnZs == {SPAWN_NEAR, 41 * VU}
VariantGaps == {16, 60}
SwaySigns == {-1, 1}

\* spawnTree(z, isRespawn, insertAtFront): the pool it leaves; of the ranges
\* of x and of a built tree's age one value each is taken
spawnTree(pool, z, isRespawn, insertAtFront) ==
  LET tree == [x |-> FOREST_HALF_WIDTH \div 2, z |-> z,
               age |-> IF isRespawn THEN 0 ELSE 1000]
  IN  IF insertAtFront THEN <<tree>> \o pool ELSE Append(pool, tree)

\* the pools resize can leave: spawned until the target count, then sorted
RECURSIVE resizePools(_)
resizePools(pool) ==
  IF Len(pool) >= MaxVariantTrees THEN {arraySortDesc(pool)}
  ELSE UNION {resizePools(spawnTree(pool, z, FALSE, FALSE)) : z \in ResizeSpawnZs}

\* update's loop from index i (1-based) on: every pool it can leave.  A tree
\* that is removed is replaced by a new one at the front, and the loop goes
\* on at the same index.
RECURSIVE updateFrom(_, _, _, _)
updateFrom(pool, i, d, sway) ==
  IF i > Len(pool) THEN {pool}
  ELSE LET tree == pool[i]
           moved == [tree EXCEPT
                       !.age = tree.age + d,
                       !.z = tree.z - (VARIANT_SPEED * d),
                       !.x = tree.x + (sway * VARIANT_SWAY * d
                                         * (IF tree.x < 0 THEN -1 ELSE 1))]
       IN  IF moved.z < VARIANT_NEAR_Z
              \/ (IF moved.x < 0 THEN -moved.x ELSE moved.x)
                   > FOREST_HALF_WIDTH + (2 * VU)
           THEN UNION {updateFrom(spawnTree(SubSeq(pool, 1, i - 1)
                                              \o SubSeq(pool, i + 1, Len(pool)),
                                            z, TRUE, TRUE),
                                  i, d, sway)
                       : z \in RespawnZs}
           ELSE updateFrom([pool EXCEPT ![i] = moved], i + 1, d, sway)

\* update(dt, t): every pool it can leave
update(pool, d, sway) == updateFrom(pool, 1, d, sway)

VariantInit ==
  /\ EngineInit
  /\ \E pool \in resizePools(<<>>) :
       probe = [fn |-> "variant", trees |-> pool, lastT |-> 0, t |-> 0,
                frames |-> 0, drawn |-> <<>>]

\* frame(t): dt = Math.min(50, t - (frame.lastT || t)), update, then the
\* trees drawn in array order; lastT is 0 while frame.lastT is unset, which
\* `frame.lastT || t` treats alike
VariantFrame ==
  /\ probe.fn = "variant"
  /\ probe.frames < MaxVariantFrames
  /\ \E gap \in VariantGaps : \E sway \in SwaySigns :
     \E d \in {IF probe.lastT = 0 THEN 0 ELSE Min(VARIANT_DT_MAX, gap)} :
     \E pool \in update(probe.trees, d, sway) :
       probe' = [probe EXCEPT !.trees = pool,
                              !.lastT = probe.t + gap,
                              !.t = probe.t + gap,
                              !.frames = probe.frames + 1,
                              !.drawn = [k \in DOMAIN pool |-> pool[k].z]]
  /\ UNCHANGED <<started, now, W, H, topY, bottomY, fov, trees, g, rowsPerCol,
                 cur, themeFrom, themeTo, themeStartT, themeTransitioning,
                 lastT, dt, fx, ticks, themeMsgs, scheduled, yaw, camX, host>>

VariantSpec == VariantInit /\ [][VariantFrame]_vars

(***************************************************************************)
(* update of the variants called on its own, with the trees of the pool    *)
(* numbered at the start of each call.  part_002 and part_004 respawn at   *)
(* the front of the pool, part_001 at its end.                             *)
(***************************************************************************)
MaxOnceCalls == 2
OnceVariants == {"front", "back"}
OnceDts == {16, 50}

\* update's loop of part_001 from index i on: spawnTree pushes the new tree
RECURSIVE updateFromBack(_, _, _, _)
updateFromBack(pool, i, d, sway) ==
  IF i > Len(pool) THEN {pool}
  ELSE LET tree == pool[i]
           moved == [tree EXCEPT
                       !.age = tree.age + d,
                       !.z = tree.z - (VARIANT_SPEED * d),
                       !.x = tree.x + (sway * VARIANT_SWAY * d
                                         * (IF tree.x < 0 THEN -1 ELSE 1))]
       IN  IF moved.z < VARIANT_NEAR_Z
              \/ (IF moved.x < 0 THEN -moved.x ELSE moved.x)
                   > FOREST_HALF_WIDTH + (2 * VU)
           THEN UNION {updateFromBack(spawnTree(SubSeq(pool, 1, i - 1)
                                                  \o SubSeq(pool, i + 1, Len(pool)),
                                                z, TRUE, FALSE),
                                      i, d, sway)
                       : z \in RespawnZs}
           ELSE updateFromBack([pool EXCEPT ![i] = moved], i + 1, d, sway)

\* the pool with its trees numbered by position
numbered(pool) ==
  [k \in DOMAIN pool |->
     [x |-> pool[k].x, z |-> pool[k].z, age |-> pool[k].age, id |-> k]]

OnceInit ==
  /\ EngineInit
  /\ \E pool \in resizePools(<<>>) : \E v \in OnceVariants :
       probe = [fn |-> "once", variant |-> v, trees |-> pool, before |-> <<>>,
                d |-> 0, calls |-> 0]

\* update(dt, t)
OnceUpdate ==
  /\ probe.fn = "once"
  /\ probe.calls < MaxOnceCalls
  /\ \E d \in OnceDts : \E sway \in SwaySigns :
     \E start \in {numbered(probe.trees)} :
     \E pool \in (IF probe.variant = "front" THEN update(start, d, sway)
                  ELSE updateFromBack(start, 1, d, sway)) :
       probe' = [probe EXCEPT !.trees = pool, !.before = start, !.d = d,
                              !.calls = probe.calls + 1]
  /\ UNCHANGED <<started, now, W, H, topY, bottomY, fov, trees, g, rowsPerCol,
                 cur, themeFrom, themeTo, themeStartT, themeTransitioning,
                 lastT, dt, fx, ticks, themeMsgs, scheduled, yaw, camX, host>>

OnceSpec == OnceInit /\ [][OnceUpdate]_vars

(***************************************************************************)
(* Either host: the loader starts the engine in a worker or, without       *)
(* OffscreenCanvas, on the owning thread, and drives it from there on.     *)
(***************************************************************************)
\* frames taken by either host
MaxHostTicks == 2

HostThemes == {Null, NIGHT_THEME}

HostNext ==
  \/ \E th \in HostThemes : InitMsg(800, 600, th)
  \/ \E th \in HostThemes : MainBoot(800, 600, th)
  \/ \E s \in LongSizes : ResizeMsg(s[1], s[2])
  \/ \E s \in LongSizes : MainResize(s[1], s[2])
  \/ themeMsgs < MaxThemeMsgs /\ \E th \in {DEFAULT_THEME} : ThemeMsg(th)
  \/ themeMsgs < MaxThemeMsgs /\ \E th \in {DEFAULT_THEME} : MainSetTheme(th)
  \/ ticks < MaxHostTicks /\ \E gap \in Gaps : Tick(gap)

HostSpec == Init /\ [][HostNext]_vars

(***************************************************************************)
(* Two engine instances build their forests, each with a generator of its  *)
(* own seeded as the module seeds it, one tree (one pass through the body  *)
(* of buildForest's inner loop) at a time, in any interleaving.            *)
(***************************************************************************)
\* rng(): the closure advances its seed and returns a word
rngCall(gen) ==
  [seed |-> mulberry32Seed(gen.seed), calls |-> gen.calls + 1,
   word |-> mulberry32Out(gen.seed)]

\* the loop body with the calls for hue and trunk width in the other order
pushNextHueFirst(inst) ==
  LET k == Len(inst.out)
      cx == cols[(k \div rowsPerColOf) + 1]
      row == k % rowsPerColOf
      c1 == rngCall(inst.gen)
      c2 == rngCall(c1)
      c3 == rngCall(c2)
      c4 == rngCall(c3)
      c5 == rngCall(c4)
  IN  [gen |-> [seed |-> c5.seed, calls |-> c5.calls],
       out |-> Append(inst.out,
                 [x |-> cx + randS(c1.word, -X_JITTER, X_JITTER),
                  z |-> ((row + 1) * Z_SPACING) + randS(c2.word, 0, (Z_SPACING * 3) \div 10),
                  trunkW |-> randS(c4.word, (55 * ZU) \div 100, (110 * ZU) \div 100),
                  hueRng |-> randS(c3.word, 0, 1000),
                  lit |-> randS(c5.word, (55 * ZU) \div 100, ZU)])]

\* one pass through the loop body: the k-th tree (0-based) is that of column
\* k div rowsPerCol and row k mod rowsPerCol, its attributes drawn by five
\* calls of rng in the order x, z, trunkW, hue, lit
pushNext(inst) ==
  LET k == Len(inst.out)
      cx == cols[(k \div rowsPerColOf) + 1]
      row == k % rowsPerColOf
      c1 == rngCall(inst.gen)
      c2 == rngCall(c1)
      c3 == rngCall(c2)
      c4 == rngCall(c3)
      c5 == rngCall(c4)
  IN  [gen |-> [seed |-> c5.seed, calls |-> c5.calls],
       out |-> Append(inst.out,
                 [x |-> cx + randS(c1.word, -X_JITTER, X_JITTER),
                  z |-> ((row + 1) * Z_SPACING) + randS(c2.word, 0, (Z_SPACING * 3) \div 10),
                  trunkW |-> randS(c3.word, (55 * ZU) \div 100, (110 * ZU) \div 100),
                  hueRng |-> randS(c4.word, 0, 1000),
                  lit |-> randS(c5.word, (55 * ZU) \div 100, ZU)])]

\* an engine instance as loaded: rng = mulberry32(0xabcd1234), trees = []
InstanceLoaded == [gen |-> [seed |-> RNG_SEED, calls |-> 0], out |-> <<>>]

BuildInit ==
  /\ EngineInit
  /\ probe = [fn |-> "buildForest", a |-> InstanceLoaded, b |-> InstanceLoaded]

BuildPushA ==
  /\ probe.fn = "buildForest"
  /\ Len(probe.a.out) < MaxBuildTrees
  /\ probe' = [probe EXCEPT !.a = pushNext(probe.a)]
  /\ UNCHANGED <<started, now, W, H, topY, bottomY, fov, trees, g, rowsPerCol,
                 cur, themeFrom, themeTo, themeStartT, themeTransitioning,
                 lastT, dt, fx, ticks, themeMsgs, scheduled, yaw, camX, host>>

BuildPushB ==
  /\ probe.fn = "buildForest"
  /\ Len(probe.b.out) < MaxBuildTrees
  /\ probe' = [probe EXCEPT !.b = pushNext(probe.b)]
  /\ UNCHANGED <<started, now, W, H, topY, bottomY, fov, trees, g, rowsPerCol,
                 cur, themeFrom, themeTo, themeStartT, themeTransitioning,
                 lastT, dt, fx, ticks, themeMsgs, scheduled, yaw, camX, host>>

BuildSpec == BuildInit /\ [][BuildPushA \/ BuildPushB]_vars

(***************************************************************************)
(* Theme messages are not validated: the target may be a partial palette.  *)
(***************************************************************************)
ThemeTargets == {NIGHT_THEME, PARTIAL_THEME}

PartialNext ==
  \/ InitMsg(800, 600, Null)
  \/ \E s \in Sizes : ResizeMsg(s[1], s[2])
  \/ themeMsgs < MaxThemeMsgs /\ \E th \in ThemeTargets : ThemeMsg(th)
  \/ ticks < MaxTicks /\ \E gap \in Gaps : Tick(gap)

PartialSpec == Init /\ [][PartialNext]_vars

(***************************************************************************)
(* sortByZDesc applied to arrays of its own.                               *)
(***************************************************************************)
\* the arrays of length n with z in 0..MaxSortZ; id is the element's index
SortArrays(n) == {[i \in 1..n |-> [id |-> i, z |-> f[i]]] : f \in [1..n -> 0..MaxSortZ]}

SortInit ==
  /\ EngineInit
  /\ \E n \in 0..MaxSortLen : \E arr \in SortArrays(n) :
       probe = [fn |-> "sortByZDesc", in |-> arr, out |-> <<>>, done |-> FALSE]

SortApply ==
  /\ probe.fn = "sortByZDesc"
  /\ ~probe.done
  /\ probe' = [probe EXCEPT !.out = sortByZDesc(probe.in), !.done = TRUE]
  /\ UNCHANGED <<started, now, W, H, topY, bottomY, fov, trees, g, rowsPerCol,
                 cur, themeFrom, themeTo, themeStartT, themeTransitioning,
                 lastT, dt, fx, ticks, themeMsgs, scheduled, yaw, camX, host>>

SortSpec == SortInit /\ [][SortApply]_vars

(***************************************************************************)
(* lerpTheme applied as updateThemeTransition applies it.                  *)
(***************************************************************************)
\* palettes a transition may start from or aim at: `from` is a snapshot of
\* cur, which may itself be interpolated
LerpPalettes == Palettes \cup {lerpTheme(DEFAULT_THEME, NIGHT_THEME, easedAt(300))}

\* elapsed times, from before the start to after the end of the transition
LerpElapsed == {(k * THEME_DURATION) \div LerpSteps : k \in (-1)..(LerpSteps + 1)}

LerpInit ==
  /\ EngineInit
  /\ \E a \in LerpPalettes : \E b \in LerpPalettes : \E e \in LerpElapsed :
       probe = [fn |-> "lerpTheme", a |-> a, b |-> b, elapsed |-> e,
                t |-> DZero, out |-> a, done |-> FALSE]

\* lines 221-224 of updateThemeTransition, on the probe
LerpApply ==
  /\ probe.fn = "lerpTheme"
  /\ ~probe.done
  /\ \E t \in {easedAt(probe.elapsed)} :
       probe' = [probe EXCEPT !.t = t, !.out = lerpTheme(probe.a, probe.b, t),
                              !.done = TRUE]
  /\ UNCHANGED <<started, now, W, H, topY, bottomY, fov, trees, g, rowsPerCol,
                 cur, themeFrom, themeTo, themeStartT, themeTransitioning,
                 lastT, dt, fx, ticks, themeMsgs, scheduled, yaw, camX, host>>

LerpSpec == LerpInit /\ [][LerpApply]_vars

(***************************************************************************)
(* Properties.                                                             *)
(***************************************************************************)
Ids(pool) == {pool[i].id : i \in DOMAIN pool}
TreeOf(pool, id) == pool[CHOOSE i \in DOMAIN pool : pool[i].id = id]

\* the latest handler made this call
Did(step) == \E i \in DOMAIN fx.steps : fx.steps[i] = step

\* the tree was repositioned by the latest frame: only a recycle sets fade to 0
JustRecycled(t) == fx.handler = "tick" /\ t.fade = 0 /\ t.recycleWait = 0

\* the row-span a recycle adds
RowSpan == rowsPerColOf * Z_SPACING

\* C1 as stated: no tree's z is ever negative (z stays positive), also
\* while the tree dwells below the near threshold.
C1_ZAlwaysPositive == \A i \in DOMAIN trees : trees[i].z > 0

\* C1 amended: a tree's z is at or above the near threshold, hence positive,
\* whenever its wait timer is 0; while it dwells below the threshold its z
\* may be negative but stays above 1.1 - SPEED_BASE * RECYCLE_DELAY_MS = -2.9.
C1_ZBoundedBelow ==
  \A i \in DOMAIN trees :
    /\ trees[i].recycleWait = 0 => trees[i].z >= RECYCLE_NEAR_Z
    /\ trees[i].z + (SPEED_BASE * trees[i].recycleWait) >= RECYCLE_NEAR_Z
    /\ trees[i].z > RECYCLE_NEAR_Z - (SPEED_BASE * RECYCLE_DELAY_MS)

\* a tree dwelling behind the camera, its z negative
C1_DwellingBehindCamera ==
  \E i \in DOMAIN trees : trees[i].z < 0 /\ trees[i].recycleWait > 0

\* C2: a tree is repositioned only in a frame in which it is below the near
\* threshold and its wait timer, with this frame's dt, has reached
\* RECYCLE_DELAY_MS; the frame adds exactly one row-span to its z and sets
\* its fade and its wait timer to 0.
C2_RecycleStep ==
  (started /\ started') =>
    \A id \in Ids(trees) :
      LET o == TreeOf(trees, id)
          n == TreeOf(trees', id)
      IN  n.z > o.z =>
            /\ o.z - (SPEED_BASE * dt') < RECYCLE_NEAR_Z
            /\ o.recycleWait + dt' >= RECYCLE_DELAY_MS
            /\ n.z = o.z - (SPEED_BASE * dt') + RowSpan
            /\ n.fade = 0
            /\ n.recycleWait = 0

C2_RecycledOnceAfterDelay == [][C2_RecycleStep]_vars

\* a frame has just recycled a tree
C2_TreeRecycled == \E i \in DOMAIN trees : JustRecycled(trees[i])

\* what never changes of the trees buildForest creates
Identity(t) ==
  [id |-> t.id, x |-> t.x, trunkW |-> t.trunkW, hueRng |-> t.hueRng, lit |-> t.lit]

Identities(pool) == {Identity(pool[i]) : i \in DOMAIN pool}

\* the build indices of the trees the model tracks
BuiltIds ==
  {((c - 1) * rowsPerColOf) + r + 1 :
     c \in 1..Min(PoolCols, Len(cols)), r \in 0..(Min(PoolRows, rowsPerColOf) - 1)}

\* C3: after init the pool holds exactly the trees build created, one
\* record each (columns x rows of them), and no handler adds, removes or
\* replaces a tree.
C3_PoolIsTheBuiltTrees ==
  /\ [](started =>
         /\ Len(trees) = Min(PoolCols, Len(cols)) * Min(PoolRows, rowsPerColOf)
         /\ Cardinality(Ids(trees)) = Len(trees)
         /\ Ids(trees) = BuiltIds)
  /\ [][started => Identities(trees') = Identities(trees)]_vars

\* a resize handled after a tree was recycled and the pool re-sorted
C3_ResizedAfterRecycle ==
  /\ fx.handler = "resize"
  /\ \E i \in DOMAIN trees : trees[i].fade < FADE_ONE /\ trees[i].recycleWait = 0

IsDescending(arr) ==
  \A i \in DOMAIN arr : \A j \in DOMAIN arr : i < j => arr[i].z >= arr[j].z

\* C4: sortByZDesc leaves a permutation of its input, ordered by
\* non-increasing z, elements of equal z in their input order: the order of
\* a stable full descending sort.
C4_SortIsStableDescending ==
  probe.done =>
    /\ Len(probe.out) = Len(probe.in)
    /\ \A i \in DOMAIN probe.in : \E k \in DOMAIN probe.out : probe.out[k] = probe.in[i]
    /\ IsDescending(probe.out)
    /\ \A i \in DOMAIN probe.out : \A j \in DOMAIN probe.out :
         (i < j /\ probe.out[i].z = probe.out[j].z) => probe.out[i].id < probe.out[j].id
    /\ probe.out = arraySortDesc(probe.in)

\* an unsorted array with two equal elements has been sorted
C4_SortedUnsortedWithTies ==
  /\ probe.done
  /\ probe.out # probe.in
  /\ \E i \in DOMAIN probe.in : \E j \in DOMAIN probe.in :
       i # j /\ probe.in[i].z = probe.in[j].z

\* C5: the pool is ordered by non-increasing z whenever the draw loop
\* starts, also in frames that recycled trees, and between frames after any
\* message.
C5_PoolFarToNear == started => IsDescending(trees)

\* a frame has just recycled a tree, which now lies behind another tree
C5_RecycledTreeResorted ==
  \E i \in DOMAIN trees : JustRecycled(trees[i]) /\ i < Len(trees)

TreeCachesOf(t) ==
  [solidColors |-> t.solidColors, gradStops |-> t.gradStops, gradCache |-> t.gradCache]

\* every tree's gradient object is the one built from its stops and the clip lines
GradientsFresh(pool, top, bottom) ==
  \A i \in DOMAIN pool :
    pool[i].gradCache = linearGradient(top, bottom, pool[i].gradStops)

ClipLinesChanged == topY' # topY \/ bottomY' # bottomY

GradRebuiltNext ==
  \E i \in DOMAIN fx'.steps : fx'.steps[i] = "rebuildTreeGradients"

ThemeStepNext == \E i \in DOMAIN fx'.steps : fx'.steps[i] = "lerpTheme"

\* C6 as stated: after init, a handler rebuilds the trees' gradient objects
\* if and only if it changed the clip lines or applied a theme step.
C6_RebuiltIffClipChanged ==
  [][started => (GradRebuiltNext <=> (ClipLinesChanged \/ ThemeStepNext))]_vars

\* C6 amended: a handler rebuilds the trees' gradient objects if and only
\* if it is a resize (handleResize, whether or not the clip lines change) or
\* it applied a theme transition step; a rebuild leaves every tree the
\* gradient of its stops and the clip lines, and no other handler touches
\* the cached object.
C6_RebuildStep ==
  /\ started =>
       (GradRebuiltNext <=> (fx'.handler = "resize" \/ ThemeStepNext))
  /\ GradRebuiltNext => GradientsFresh(trees', topY', bottomY')
  /\ (started /\ ~GradRebuiltNext) =>
       \A id \in Ids(trees) :
         TreeOf(trees', id).gradCache = TreeOf(trees, id).gradCache

C6_RebuiltIffResizeOrThemeStep == [][C6_RebuildStep]_vars

\* a resize has rebuilt the gradients while a transition is under way
C6_ResizeRebuilt ==
  /\ fx.handler = "resize"
  /\ Did("rebuildTreeGradients")
  /\ themeTransitioning
  /\ lastT # 0

\* C7: a resize message never rewrites a tree's solidColors.
C7_ResizeKeepsSolidColors ==
  [][(started /\ fx'.handler = "resize") =>
       ~(\E i \in DOMAIN fx'.steps : fx'.steps[i] = "rebuildTreeColors")]_vars

\* C8: a frame with no transition active constructs no colour string and no
\* gradient, and leaves the scene gradients and every tree's solidColors,
\* gradStops and gradCache as they were.
C8_IdleFrameStep ==
  (started /\ ~themeTransitioning /\ now' # now) =>
    /\ \A i \in DOMAIN fx'.steps :
         fx'.steps[i] \notin {"lerpTheme", "buildSceneGradients",
                              "rebuildTreeColors", "rebuildTreeGradients"}
    /\ g' = g
    /\ \A id \in Ids(trees) :
         TreeCachesOf(TreeOf(trees', id)) = TreeCachesOf(TreeOf(trees, id))

C8_IdleFrameBuildsNothing == [][C8_IdleFrameStep]_vars

\* a frame has run with no transition active, after a transition completed
C8_IdleFrameAfterTransition ==
  /\ fx.handler = "tick"
  /\ ~Did("lerpTheme")
  /\ themeTo # Null
  /\ ~themeTransitioning

Between(x, a, b) ==
  \/ DCmp(a, x) <= 0 /\ DCmp(x, b) <= 0
  \/ DCmp(b, x) <= 0 /\ DCmp(x, a) <= 0

ThemeBetween(c, a, b) ==
  /\ \A i \in DOMAIN a.sky : \A k \in 1..3 : Between(c.sky[i][k], a.sky[i][k], b.sky[i][k])
  /\ \A i \in DOMAIN a.fog : \A k \in 1..4 : Between(c.fog[i][k], a.fog[i][k], b.fog[i][k])
  /\ Between(c.treeHueMin, a.treeHueMin, b.treeHueMin)
  /\ Between(c.treeHueMax, a.treeHueMax, b.treeHueMax)
  /\ Between(c.treeSat, a.treeSat, b.treeSat)
  /\ Between(c.treeLightMin, a.treeLightMin, b.treeLightMin)
  /\ Between(c.treeLightMax, a.treeLightMax, b.treeLightMax)

\* C9: at t = 0 the interpolated palette equals from, at t = 1 it equals to,
\* and at every t each channel and scalar lies between those of from and to.
C9_LerpBounded ==
  probe.done =>
    /\ probe.t = DZero => probe.out = probe.a
    /\ probe.t = DOne => probe.out = probe.b
    /\ ThemeBetween(probe.out, probe.a, probe.b)

\* every colour cache is the one derived from the theme snapshot
CachesFrom(theme) ==
  /\ g = buildSceneGradients(theme, H)
  /\ \A i \in DOMAIN trees :
       /\ trees[i].solidColors = solidColorsOf(treeScalars(theme), trees[i].hueRng)
       /\ trees[i].gradStops = gradStopsOf(treeScalars(theme), trees[i].hueRng)
       /\ trees[i].gradCache = linearGradient(topY, bottomY, trees[i].gradStops)

\* the latest frame applied a theme step and ended the transition
TransitionJustEnded == fx.handler = "tick" /\ Did("lerpTheme") /\ ~themeTransitioning

\* C10: with frames running and no further target, an active transition
\* eventually becomes inactive; the frame that ends it leaves cur equal to
\* the target and every colour cache rebuilt from it.
C10_TransitionCompletes ==
  /\ themeTransitioning ~> ~themeTransitioning
  /\ [](TransitionJustEnded => (cur = themeTo /\ CachesFrom(cur)))

\* C11: while no transition is active, neither a frame nor a resize message
\* changes cur.
C11_IdleKeepsCur ==
  [][(started /\ ~themeTransitioning /\ fx'.handler \in {"tick", "resize"})
       => cur' = cur]_vars

\* a resize handled after a transition completed, cur no longer the palette
\* the transition started from
C11_ResizedAfterTransition ==
  /\ fx.handler = "resize"
  /\ ~themeTransitioning
  /\ themeFrom # Null
  /\ cur # themeFrom

\* cur has every field of a palette
WellFormed(theme) == DOMAIN theme = DOMAIN DEFAULT_THEME

\* C12: a partial theme target never aborts the frame loop: after every
\* handler a frame is pending and cur is a complete palette.
C12_PartialTargetKeepsLoop == started => (scheduled /\ WellFormed(cur))

\* the calls of a frame that draw on the context
DrawCalls == {"fillRect bg", "drawTrees", "fillRect fog"}

DrawsNext == \E i \in DOMAIN fx'.steps : fx'.steps[i] \in DrawCalls

\* C13: a frame with a zero-sized viewport issues no draw call, does not
\* throw and leaves its successor scheduled; a frame with a viewport of
\* positive size draws.
C13_ZeroViewportStep ==
  (started /\ fx'.handler = "tick") =>
    /\ (W = 0 \/ H = 0) => (~DrawsNext /\ scheduled')
    /\ (W > 0 /\ H > 0) => (DrawsNext /\ scheduled')

C13_ZeroViewportDrawsNothing == [][C13_ZeroViewportStep]_vars

\* the steps of a frame the order is about
FrameOrder ==
  <<"updateThemeTransition", "fillRect bg", "update", "sortByZDesc", "drawTrees",
    "fillRect fog", "scheduleFrame">>

IsFrameStep(step) == \E i \in DOMAIN FrameOrder : FrameOrder[i] = step

\* C14: a frame advances the theme transition, paints the background,
\* advances camera and pool, sorts, draws the trees, paints the fog and
\* schedules its successor, in this order and each once; the background and
\* the fog it paints are the gradients of the one theme snapshot the frame
\* leaves in cur.
C14_FrameStep ==
  (started /\ fx'.handler = "tick") =>
    /\ SelectSeq(fx'.steps, IsFrameStep) = FrameOrder
    /\ fx'.bg = buildSceneGradients(cur', H').bg
    /\ fx'.fog = buildSceneGradients(cur', H').fog

C14_FrameOrder == [][C14_FrameStep]_vars

\* a frame in the middle of a transition: it changed the snapshot it paints
C14_FrameMidTransition ==
  /\ fx.handler = "tick"
  /\ Did("lerpTheme")
  /\ themeTransitioning
  /\ cur # themeFrom
  /\ fx.bg = g.bg

\* C15: the first frame uses dt = 16 ms, every later frame
\* min(timestamp - previous frame's timestamp, 48); so 0 <= dt <= 48.
C15_DtStep ==
  (started /\ fx'.handler = "tick") =>
    /\ dt' = (IF ticks = 0 THEN DT_FIRST ELSE Min(now' - now, DT_MAX))
    /\ 0 <= dt' /\ dt' <= DT_MAX

C15_DtClamped == [][C15_DtStep]_vars

\* a later frame whose gap exceeded the ceiling
C15_GapClamped ==
  /\ fx.handler = "tick"
  /\ ticks >= 2
  /\ dt = DT_MAX
  /\ now - DT_MAX > 0

\* everything of a tree but its cached gradient object
TreeButGradient(t) ==
  [id |-> t.id, x |-> t.x, z |-> t.z, trunkW |-> t.trunkW, hueRng |-> t.hueRng,
   lit |-> t.lit, fade |-> t.fade, recycleWait |-> t.recycleWait,
   solidColors |-> t.solidColors, gradStops |-> t.gradStops]

\* C16: a resize leaves the pool's size and order and every tree's x, z,
\* trunkW, hueRng, lit, fade and recycleWait as they were; it changes only
\* the viewport state (W, H, fov, clip lines) and the caches built from it
\* (scene gradients, the trees' gradient objects).
C16_ResizeStep ==
  (started /\ fx'.handler = "resize") =>
    /\ Len(trees') = Len(trees)
    /\ \A i \in DOMAIN trees : TreeButGradient(trees'[i]) = TreeButGradient(trees[i])
    /\ UNCHANGED <<started, now, rowsPerCol, cur, themeFrom, themeTo, themeStartT,
                   themeTransitioning, lastT, dt, scheduled, yaw, camX>>

C16_ResizeKeepsPool == [][C16_ResizeStep]_vars

\* a resize to another width while a tree dwells below the near threshold
C16_ResizedWhileDwelling ==
  /\ fx.handler = "resize"
  /\ W = 1024
  /\ \E i \in DOMAIN trees : trees[i].recycleWait > 0 /\ trees[i].z < RECYCLE_NEAR_Z

\* the attributes of the k-th tree (0-based) buildForest pushes
BuiltAttributes(k) ==
  LET t == newTree(k, cols[(k \div rowsPerColOf) + 1], k % rowsPerColOf, DEFAULT_THEME)
  IN  [x |-> t.x, z |-> t.z, trunkW |-> t.trunkW, hueRng |-> t.hueRng, lit |-> t.lit]

C18_CameraOfTimestamp ==
  (started /\ ticks > 0) => (yaw = yawAt(lastT) /\ camX = driftAt(lastT))

\* a third frame at a timestamp beyond 500 ms whose dt is the nominal 16 ms:
\* the dt of the frames before do not add up to the timestamp
C18_TimestampAheadOfDt ==
  /\ fx.handler = "tick"
  /\ ticks = 3
  /\ dt = DT_FIRST
  /\ lastT > 500
  /\ camX = driftAt(lastT)

\* viewport sizes and palettes an operation of either host may carry
HostSizes == {<<800, 600>>} \cup LongSizes

\* C19: from the same engine state and with the same input, the worker's
\* message handler and the owning thread's counterpart leave the same engine
\* state (pool, camera, theme state, viewport state), for init, resize and
\* theme alike; frames are the same function in both hosts.  Both hosts
\* start from the state of the module as loaded, so their states agree
\* after every step.
C19_HostStep ==
  /\ \A s \in HostSizes : \A th \in HostThemes :
       onInit(s[1], s[2], th) <=> mainBoot(s[1], s[2], th)
  /\ \A s \in HostSizes : onResize(s[1], s[2]) <=> resizeMain(s[1], s[2])
  /\ \A th \in Palettes : onTheme(th) <=> bgSetTheme(th)

C19_HostsAgree == [][C19_HostStep]_vars

\* on the owning thread: booted with the page's palette, resized, and a
\* frame has applied a step of a transition
C19_MainThreadRun ==
  /\ host = "main"
  /\ W = 1024
  /\ fx.handler = "tick"
  /\ Did("lerpTheme")
  /\ themeFrom = NIGHT_THEME

\* C20: one update with dt = 1000 on a freshly built pool lowers every
\* tree's z by exactly 4 (SPEED_BASE * 1000) and keeps the pool's size
C20_AdvanceLowersEveryZ ==
  (probe # Null /\ probe.fn = "update" /\ probe.calls = 1 /\ probe.dt = 1000) =>
     /\ Len(probe.out) = Len(probe.before)
     /\ Ids(probe.out) = Ids(probe.before)
     /\ \A id \in Ids(probe.before) :
          TreeOf(probe.out, id).z = TreeOf(probe.before, id).z - (4 * ZU)

DHalf == DDivInt(DOne, 2)

\* a frame has just applied the step that lies half the duration after the
\* target was set, between two different palettes
HalfWay ==
  /\ fx.handler = "tick"
  /\ Did("lerpTheme")
  /\ themeFrom # themeTo
  /\ 2 * (lastT - themeStartT) = THEME_DURATION

\* C21 (as stated): half the duration after a theme change, cur is the
\* interpolation at the eased midpoint and differs from the linear 50% mix
C21_EasedMidpointNotLinear ==
  HalfWay => /\ cur = lerpTheme(themeFrom, themeTo, easeInOut01(DHalf))
             /\ cur # lerpTheme(themeFrom, themeTo, DHalf)

\* C21 (amended): half the duration after a theme change, cur is the
\* interpolation at the eased midpoint, and the ease of 0.5 is 0.5, so this
\* is the linear 50% mix of from and to
C21_EasedMidpointIsLinear ==
  HalfWay => /\ cur = lerpTheme(themeFrom, themeTo, easeInOut01(DHalf))
             /\ easeInOut01(DHalf) = DHalf
             /\ cur = lerpTheme(themeFrom, themeTo, DHalf)

\* half-way from the default palette to the night palette
C21_HalfWayToNight ==
  /\ HalfWay
  /\ themeFrom = DEFAULT_THEME
  /\ themeTo = NIGHT_THEME
  /\ themeTransitioning

\* the duration the file header and the loader's header state, in ms
HEADER_TRANSITION_MS == 5000

\* C22: a transition between two different palettes lasts 5 seconds: after
\* every frame whose timestamp is less than 5000 ms past the moment the
\* target was set the transition is still active and cur is short of the
\* target, and the frame at 5000 ms or later ends it
C22_TransitionLastsFiveSeconds ==
  (fx.handler = "tick" /\ themeMsgs > 0 /\ themeFrom # themeTo)
    => IF lastT - themeStartT < HEADER_TRANSITION_MS
       THEN themeTransitioning /\ cur # themeTo
       ELSE ~themeTransitioning

\* the sweep has drawn the tree at two depths, prevRz and the nearer rz
Swept == probe # Null /\ probe.fn = "alpha" /\ probe.prev # Null

\* half-way between the near and the far plane
MidRange == (DEPTH_NEAR + DEPTH_FAR) \div 2

\* C23 (as stated): at a fixed offset and fade, alpha strictly increases as
\* the depth moves from the far plane toward mid-range, strictly decreases
\* toward the near plane on the centerline, and does not decrease near the
\* camera a band or more off the centerline
C23_AlphaMonotone ==
  Swept =>
    /\ (probe.prevRz <= DEPTH_FAR /\ probe.rz >= MidRange)
         => DCmp(probe.alpha, probe.prev) > 0
    /\ (probe.absDx = 0 /\ probe.prevRz <= NEAR_FADE_START_Z
          /\ probe.rz >= NEAR_FADE_END_Z)
         => DCmp(probe.alpha, probe.prev) < 0
    /\ (probe.absDx >= CENTER_FADE_BAND_X /\ probe.prevRz <= NEAR_FADE_START_Z)
         => DCmp(probe.alpha, probe.prev) >= 0

\* C23 (amended): at a fixed offset and a positive fade, alpha strictly
\* increases with nearness while the far fade is incomplete, is constant
\* from there to the start of the near fade, strictly decreases through the
\* near fade on the centerline, and is constant there a band or more off
\* the centerline; at fade 0 it is 0 throughout
C23_AlphaByBand ==
  Swept =>
    IF probe.fade = 0 THEN probe.alpha = DZero /\ probe.prev = DZero
    ELSE
      /\ (probe.prevRz <= DEPTH_FAR /\ DCmp(farAlphaOf(Num(probe.rz)), DOne) < 0)
           => DCmp(probe.alpha, probe.prev) > 0
      /\ (farAlphaOf(Num(probe.prevRz)) = DOne /\ probe.rz >= NEAR_FADE_START_Z)
           => probe.alpha = probe.prev
      /\ (probe.absDx = 0 /\ probe.prevRz <= NEAR_FADE_START_Z
            /\ probe.rz >= NEAR_FADE_END_Z)
           => DCmp(probe.alpha, probe.prev) < 0
      /\ (probe.absDx >= CENTER_FADE_BAND_X /\ probe.prevRz <= NEAR_FADE_START_Z)
           => probe.alpha = probe.prev

\* an off-centre tree at full fade, drawn inside the near-fade band after
\* having been drawn in the far-fade band and in between
C23_SweptToTheCamera ==
  /\ Swept
  /\ probe.fade = FADE_ONE
  /\ probe.absDx = CENTER_FADE_BAND_X
  /\ probe.rz < NEAR_FADE_START_Z
  /\ probe.rz > NEAR_FADE_END_Z
  /\ probe.alpha = DOne

\* the i-th column (1-based) of the mirrored grid 0, +s, -s, +2s, -2s, ...
MirroredColumn(i) ==
  IF i % 2 = 0 THEN (i \div 2) * X_SPACING ELSE -((i \div 2) * X_SPACING)

\* C24: buildForest creates one tree per (column, row) pair of the mirrored
\* column grid up to the half width and of ceil(DEPTH_FAR / Z_SPACING) rows,
\* that is columns x rows trees in all, each with its initial z in
\* (0, (rowsPerCol + 1) * Z_SPACING]
C24_ForestLayout ==
  (probe # Null /\ probe.fn = "forest") =>
    /\ \A i \in DOMAIN cols :
         cols[i] = MirroredColumn(i) /\ (i \div 2) * X_SPACING <= HALF_W
    /\ ((Len(cols) + 1) \div 2) * X_SPACING > HALF_W
    /\ rowsPerColOf * Z_SPACING >= DEPTH_FAR
    /\ (rowsPerColOf - 1) * Z_SPACING < DEPTH_FAR
    /\ Len(probe.out) <= Len(cols) * rowsPerColOf
    /\ (probe.ci > Len(cols)) => Len(probe.out) = Len(cols) * rowsPerColOf
    /\ \A c \in DOMAIN cols : \A r \in 0..(rowsPerColOf - 1) :
         Cardinality({k \in DOMAIN probe.out :
                        probe.out[k].col = c /\ probe.out[k].row = r})
           = IF c < probe.ci \/ (c = probe.ci /\ r < probe.row) THEN 1 ELSE 0
    /\ \A k \in DOMAIN probe.out :
         /\ probe.out[k].col \in DOMAIN cols
         /\ probe.out[k].z > 0
         /\ probe.out[k].z <= (rowsPerColOf + 1) * Z_SPACING

\* the build has finished: all columns done and the pool sorted
C24_ForestBuilt ==
  /\ probe.fn = "forest"
  /\ probe.sorted
  /\ Len(cols) > 2
  /\ Len(probe.out) = Len(cols) * rowsPerColOf

\* C25: every step keeps every tree's trunkW and hueRng, and likewise its x
\* and lit, whatever the step is: a frame, with or without a recycle or a
\* step of a theme transition, a resize or a theme message
C25_StaticStep ==
  started =>
    /\ Ids(trees') = Ids(trees)
    /\ \A id \in Ids(trees) :
         /\ TreeOf(trees', id).trunkW = TreeOf(trees, id).trunkW
         /\ TreeOf(trees', id).hueRng = TreeOf(trees, id).hueRng
         /\ TreeOf(trees', id).x = TreeOf(trees, id).x
         /\ TreeOf(trees', id).lit = TreeOf(trees, id).lit

C25_StaticAttributesKept == [][C25_StaticStep]_vars

\* a tree has been recycled on a pool that was resized and whose colours a
\* theme transition has rebuilt
C25_RecycledAfterTransition ==
  /\ W = 1024
  /\ themeMsgs > 0
  /\ ~themeTransitioning
  /\ cur # DEFAULT_THEME
  /\ \E i \in DOMAIN trees : JustRecycled(trees[i])

\* what a step does to fade: 1 at creation; in a frame's update 0 for a tree
\* that is recycled (the only step that moves a tree away) and otherwise
\* the old value raised by 0.0015 * dt, capped at 1; unchanged elsewhere
C26_FadeStep ==
  /\ (~started /\ started') => \A i \in DOMAIN trees' : trees'[i].fade = FADE_ONE
  /\ started =>
       \A id \in Ids(trees) :
         IF \E k \in DOMAIN fx'.steps : fx'.steps[k] = "update"
         THEN IF TreeOf(trees', id).z > TreeOf(trees, id).z
              THEN TreeOf(trees', id).fade = 0
              ELSE TreeOf(trees', id).fade
                     = Min(FADE_ONE, TreeOf(trees, id).fade + (FADE_RATE * dt'))
         ELSE TreeOf(trees', id).fade = TreeOf(trees, id).fade

\* C26: every tree's fade is within [0, 1] in every reachable state, and
\* changes only as C26_FadeStep says
C26_FadeWithinUnit ==
  /\ [](\A i \in DOMAIN trees : trees[i].fade >= 0 /\ trees[i].fade <= FADE_ONE)
  /\ [][C26_FadeStep]_vars

\* a recycled tree has faded in again: it is back in the far part of the
\* forest, where no tree of the modelled rows was built, with fade 1
C26_FadedIn ==
  /\ fx.handler = "tick"
  /\ \E i \in DOMAIN trees :
       /\ trees[i].fade = FADE_ONE
       /\ trees[i].z > DEPTH_FAR - (4 * Z_SPACING)

\* C27: for every timestamp t >= 0 the segment index is
\* floor(t / SEG_MS) mod SEG_COUNT and lies in 0..SEG_COUNT-1, both reads of
\* VIEW_WAYPOINTS (at the index and the next) are inside the array, and
\* the segment fraction lies in [0, 1)
C27_SegmentInRange ==
  (probe # Null /\ probe.fn = "sweep" /\ probe.done) =>
    /\ probe.seg = (probe.t \div SEG_MS) % SEG_COUNT
    /\ probe.seg \in 0..(SEG_COUNT - 1)
    /\ \A k \in DOMAIN probe.reads :
         probe.reads[k] >= 0 /\ probe.reads[k] <= Len(VIEW_WAYPOINTS) - 1
    /\ DCmp(probe.segU, DZero) >= 0
    /\ DCmp(probe.segU, DOne) < 0
    /\ yawAt(probe.t).from = VIEW_WAYPOINTS[probe.seg + 1]
    /\ yawAt(probe.t).to = VIEW_WAYPOINTS[probe.seg + 2]

\* a timestamp in the second sweep, one millisecond before the end of its
\* last segment
C27_EndOfSecondSweep ==
  /\ probe.fn = "sweep"
  /\ probe.done
  /\ probe.t = (2 * VIEW_SWEEP_MS) - 1
  /\ probe.seg = SEG_COUNT - 1

\* C28: after every update each tree at or above the near threshold has its
\* wait timer at 0, and every tree's timer is at least 0 and below
\* RECYCLE_DELAY_MS; so the timer is non-zero only below the threshold
C28_WaitOnlyBelowThreshold ==
  started =>
    \A i \in DOMAIN trees :
      /\ trees[i].z >= RECYCLE_NEAR_Z => trees[i].recycleWait = 0
      /\ trees[i].recycleWait >= 0
      /\ trees[i].recycleWait < RECYCLE_DELAY_MS

\* a tree below the threshold whose timer the next frame can fill
C28_AboutToRecycle ==
  /\ fx.handler = "tick"
  /\ \E i \in DOMAIN trees :
       /\ trees[i].z < RECYCLE_NEAR_Z
       /\ trees[i].recycleWait + DT_MAX >= RECYCLE_DELAY_MS

\* C29: of a burst of resize events, each less than 120 ms after the one
\* before, exactly one resize reaches the engine, 120 ms after the burst's
\* last event and with the window's size at that moment; while the burst
\* goes on (a timer is pending) none of it has reached the engine
C29_OneResizePerBurst ==
  (probe # Null /\ probe.fn = "loader") =>
    IF probe.timers = {}
    THEN /\ probe.sent = probe.bursts
         /\ probe.sent > 0 =>
              /\ probe.sentAt = probe.lastEvent + RESIZE_DEBOUNCE_MS
              /\ <<W, H>> = probe.win
    ELSE /\ probe.sent = probe.bursts - 1
         /\ probe.timers = {probe.lastEvent + RESIZE_DEBOUNCE_MS}

\* a burst of three events, the last with another size than the one
\* before, has ended and its one resize has reached the engine
C29_BurstOfThreeDelivered ==
  /\ probe.fn = "loader"
  /\ probe.events = 3
  /\ probe.bursts = 1
  /\ probe.sent = 1
  /\ <<W, H>> = <<1024, 600>>
  /\ probe.sentAt = probe.lastEvent + RESIZE_DEBOUNCE_MS

\* C30: in the variant that draws without a per-frame sort the pool, sorted
\* by resize, is ordered by non-increasing z after every update, also after
\* one that removed a tree and respawned it at the front
C30_OrderMaintained ==
  (probe # Null /\ probe.fn = "variant") => IsDescending(probe.trees)

(***************************************************************************)
(* C31..C39.                                                               *)
(***************************************************************************)
\* C31: in every state between two handlers after init, and so at every
\* draw, each tree's solidColors and gradStops are those derived from its
\* hueRng and the current theme snapshot, its gradCache is a gradient built
\* from those stops and the current clip lines, and the scene gradients are
\* those of the current theme snapshot and the current height, whatever the
\* interleaving of frames, resize messages and theme messages.
C31_CachesCoherent ==
  started =>
    /\ CachesFrom(cur)
    /\ \A i \in DOMAIN trees : trees[i].gradCache # Null

\* a resize handled in the middle of a transition, after a frame moved cur
\* off the palette the transition started from
C31_ResizedMidTransition ==
  /\ fx.handler = "resize"
  /\ themeTransitioning
  /\ themeFrom # Null /\ cur # themeFrom /\ cur # themeTo
  /\ H > 0

\* the calls of scheduleFrame a handler made
SchedulesIn(f) == Cardinality({i \in DOMAIN f.steps : f.steps[i] = "scheduleFrame"})

\* init finds no frame pending and schedules one; a frame takes the pending
\* one and schedules one successor as its last call; a resize or theme
\* handler schedules none
C32_LoopStep ==
  /\ fx'.handler = "init" =>
       ~scheduled /\ SchedulesIn(fx') = 1 /\ scheduled'
  /\ fx'.handler = "tick" =>
       /\ scheduled /\ SchedulesIn(fx') = 1 /\ scheduled'
       /\ fx'.steps[Len(fx'.steps)] = "scheduleFrame"
  /\ fx'.handler \in {"resize", "theme"} =>
       SchedulesIn(fx') = 0 /\ scheduled' = scheduled

C33_TargetStep ==
  fx'.handler = "theme" =>
    /\ themeFrom' = cur
    /\ themeTo' \in Palettes
    /\ themeStartT' = now
    /\ themeTransitioning'
    /\ cur' = cur /\ g' = g /\ trees' = trees

\* a frame at elapsed time 0 of a transition leaves cur and the caches alone
C33_ZeroElapsedStep ==
  (fx'.handler = "tick" /\ themeTransitioning /\ now' = themeStartT) =>
    /\ cur' = cur
    /\ g' = g
    /\ \A id \in Ids(trees) :
         TreeCachesOf(TreeOf(trees', id)) = TreeCachesOf(TreeOf(trees, id))

\* C33: a new theme target, also one set while a transition is active,
\* snapshots cur as from, restarts the clock and marks the transition active
\* without changing cur or a colour cache; the frame at elapsed time 0 after
\* it leaves cur as it was.
C33_RetargetKeepsPalette == [][C33_TargetStep /\ C33_ZeroElapsedStep]_vars

\* a second target was set while the first transition was half way, and a
\* frame has run at elapsed time 0 of the new transition
C33_RetargetedMidTransition ==
  /\ fx.handler = "tick"
  /\ themeMsgs = 2
  /\ themeStartT = 500 /\ now = 500
  /\ themeTransitioning
  /\ cur # DEFAULT_THEME /\ cur # NIGHT_THEME

\* C34: with dt at most 48 ms, a tree's z right after its recycle is at or
\* above the near threshold and below DEPTH_FAR; the next frame finds it
\* outside the recycle zone and does not reposition it again.
C34_OneRowSpanSuffices ==
  probe.fn = "recycle" =>
    /\ probe.last =>
         /\ probe.tr.z >= RECYCLE_NEAR_Z
         /\ probe.tr.z < DEPTH_FAR
    /\ probe.last2 =>
         /\ ~probe.last
         /\ probe.tr.z >= RECYCLE_NEAR_Z
         /\ probe.tr.recycleWait = 0

\* the frame after a recycle has run: the tree is in the farthest row-span
\* and has begun to fade in
C34_FrameAfterRecycle ==
  /\ probe.fn = "recycle"
  /\ probe.last2
  /\ probe.tr.fade > 0
  /\ probe.tr.z > DEPTH_FAR - Z_SPACING

\* C35: with frames running for ever, every tree is recycled again and
\* again, and whenever a tree is below the near threshold its fade has
\* reached 1 since its latest recycle.
C35_RecycledForEver ==
  /\ []<>(probe.fn = "cycle" /\ probe.last)
  /\ [](probe.fn = "cycle" =>
          (probe.tr.z < RECYCLE_NEAR_Z => probe.tr.fade = FADE_ONE))

\* a tree recycled before is below the near threshold again, faded in
C35_SecondDwell ==
  /\ probe.fn = "cycle"
  /\ probe.recycled
  /\ probe.tr.z < RECYCLE_NEAR_Z
  /\ probe.tr.recycleWait > 0
  /\ probe.tr.fade = FADE_ONE

\* the engine shows or heads for palette p
EngineHas(p) == started /\ (cur = p \/ themeTo = p)

\* the engine runs and nothing the loader sent is still on its way
LoaderQuiet == probe.fn = "loader" /\ started /\ probe.queue = <<>>

\* C36: in both hosting modes, a palette the loader reads after a theme
\* change of the page, also one made while the engine is still starting,
\* eventually is the engine's current or target theme: once the engine
\* runs and no message is in flight, the palette read last is the engine's
\* current or target theme.
C36_NoThemeChangeLost ==
  (LoaderQuiet /\ probe.read # Null) => EngineHas(probe.read)

\* both transitions of a round trip are over: the palette sent last is the
\* one the engine started with
RoundTripDone == started /\ themeMsgs = 2 /\ ~themeTransitioning

\* the colour strings rebuildTreeColors derives from palette p are those
\* every tree holds
TreeColoursFrom(p) ==
  \A i \in DOMAIN trees :
    /\ trees[i].solidColors = solidColorsOf(treeScalars(p), trees[i].hueRng)
    /\ trees[i].gradStops = gradStopsOf(treeScalars(p), trees[i].hueRng)

\* C37: after a completed transition from palette A to palette B and a
\* completed transition back to A, cur equals A and every tree's solidColors
\* and gradStops are those it had under A.
C37_RoundTrip ==
  RoundTripDone => (cur = themeTo /\ TreeColoursFrom(themeTo))

\* depth * (DEPTH_QUANT - 1), the Number the index is cut from
scaledDepth == DMul(probe.depth, DFromInt(DEPTH_QUANT - 1))

\* C38: for every tree that passes the clip and alpha tests of drawTree the
\* index dIdx lies in 0..DEPTH_QUANT-1, the colour read from solidColors is
\* a defined entry of the array, and dIdx is an integer nearest to
\* depth * (DEPTH_QUANT - 1): it differs from it by at most one half.
C38_BucketInRange ==
  (probe.fn = "draw" /\ probe.drawn) =>
    /\ probe.dIdx \in 0..(DEPTH_QUANT - 1)
    /\ probe.fillStyle # "undefined"
    /\ probe.fillStyle = probe.solidColors[probe.dIdx + 1]
    /\ DCmp(scaledDepth, DDec((2 * probe.dIdx) - 1, 2)) >= 0
    /\ DCmp(scaledDepth, DDec((2 * probe.dIdx) + 1, 2)) <= 0

\* a tree drawn at a depth on the boundary of two buckets
C38_DrawnAtBoundary ==
  /\ probe.fn = "draw"
  /\ probe.drawn
  /\ probe.rz = 33850
  /\ probe.dIdx = 5

\* tree k of the pool at the start of the latest call, where it is still in
\* the pool, has been advanced once
AdvancedOnce(k) ==
  \A j \in DOMAIN probe.trees :
    ("id" \in DOMAIN probe.trees[j] /\ probe.trees[j].id = k) =>
      /\ probe.trees[j].age = probe.before[k].age + probe.d
      /\ probe.trees[j].z = probe.before[k].z - (VARIANT_SPEED * probe.d)

\* C39: in the splice-and-respawn variants one update call advances every
\* tree that was in the pool at the start of the call exactly once, also in
\* calls that remove a tree and insert a replacement, and leaves the pool's
\* size as it was.
C39_EveryTreeOnce ==
  (probe.fn = "once" /\ probe.calls > 0) =>
    /\ Len(probe.trees) = Len(probe.before)
    /\ \A k \in DOMAIN probe.before : AdvancedOnce(k)

====
